---- MODULE Spec2Model ----
(***************************************************************************)
(* Decision synthesis engine of AgriMitra: the supervisor's decision       *)
(* cascade and confidence scoring, the 48-hour storm-risk classifier with  *)
(* its climatology fallback, the spoilage-rule fallback, the market        *)
(* selection and its distances, the satellite cache with its 7-day expiry, *)
(* and the four-branch pipeline of generate_recommendation.                *)
(*                                                                         *)
(* Encoding of Python values:                                              *)
(*   - a dict is a record; "k in d" is  k \in DOMAIN d;  d.get(k, v) is    *)
(*     Get(d, k, v); d[k] on a missing key raises KeyError, which the      *)
(*     operators below make explicit;                                      *)
(*   - None is the empty tuple; a value that may be None is Some(v);       *)
(*   - floats are scaled integers: probabilities and NDVI in hundredths,   *)
(*     market prices in 1/1000 rupee and price differences in paise,       *)
(*     temperatures in tenths of a degree, coordinates in 1/10000 degree,  *)
(*     millimetres, km/h, hours, days and confidence points as integers;   *)
(*     haversine distances are kept as exact doubles (see Limb).           *)
(***************************************************************************)
EXTENDS Integers, Sequences, FiniteSets, TLC

VARIABLES
    pc,               \* position of the call under exercise
    args,             \* inputs of the function under exercise
    ret,              \* its result
    request,          \* generate_recommendation: crop, language, location
    sources,          \* what each external data source did for this request
    geospatial_data,  \* payloads of the four branches
    weather_data,
    agronomist_data,
    economist_data,
    recommendation,   \* the recommendation under construction
    raised,           \* an exception left generate_recommendation
    satellite_cache,  \* rows of the satellite_cache table
    clock             \* datetime.now(timezone.utc), in hours

vars == <<pc, args, ret, request, sources, geospatial_data, weather_data,
          agronomist_data, economist_data, recommendation, raised,
          satellite_cache, clock>>

fnVars == <<pc, args, ret>>

pipeVars == <<request, sources, geospatial_data, weather_data,
              agronomist_data, economist_data, recommendation, raised>>

cacheVars == <<satellite_cache, clock>>

-----------------------------------------------------------------------------
(* Python values *)

None == <<>>

Some(v) == <<v>>

Val(o) == o[1]

Get(d, k, default) == IF k \in DOMAIN d THEN d[k] ELSE default

Truthy(d) == DOMAIN d # {}

Min(a, b) == IF a <= b THEN a ELSE b

Max(a, b) == IF a >= b THEN a ELSE b

\* forecast[:n]
Take(s, n) == SubSeq(s, 1, Min(n, Len(s)))

-----------------------------------------------------------------------------
(* Bounds of the exploration *)

\* price differences range over -MaxPriceSteps .. MaxPriceSteps half rupees
MaxPriceSteps == 21

\* cached satellite rows are at most this many days old
MaxCacheAgeDays == 5

\* forecasts handed to assess_storm_risk have at most this many days
MaxForecastDays == 3

-----------------------------------------------------------------------------
(* SupervisorAgent._determine_action_and_urgency *)

SpoilageLevels == {"critical", "high", "medium", "low", "unknown"}

Opportunities == {"excellent", "good", "moderate", "low"}

\* in paise, every half rupee
PriceDifferences == {50 * k : k \in (0 - MaxPriceSteps)..MaxPriceSteps}

\* price_difference >= 10 rupees
SellUrgencyThreshold == 1000

SellUrgencyStrict(price_difference) ==
    IF price_difference > SellUrgencyThreshold THEN "medium" ELSE "low"

SellUrgency(price_difference) ==
    IF price_difference >= SellUrgencyThreshold THEN "medium" ELSE "low"

SpoilageBeforeStorm(crop_ready, storm_risk, spoilage_risk, market_opportunity, price_difference) ==
    IF spoilage_risk = "critical" THEN <<"harvest_now", "high", "spoilage_risk">>
    ELSE IF spoilage_risk = "high" THEN <<"harvest_now", "medium", "spoilage_risk">>
    ELSE IF storm_risk /\ crop_ready THEN <<"harvest_now", "critical", "storm_risk">>
    ELSE IF storm_risk /\ ~crop_ready THEN <<"harvest_now", "high", "storm_risk">>
    ELSE IF market_opportunity \in {"excellent", "good"} /\ crop_ready
         THEN <<"sell_now", SellUrgency(price_difference), "market_opportunity">>
    ELSE IF spoilage_risk = "medium" /\ crop_ready
         THEN <<"harvest_now", "low", "spoilage_risk">>
    ELSE <<"wait", "low", "optimal_timing">>

\* SupervisorAgent._determine_action_and_urgency; returns
\* <<action, urgency, primary_factor>>
_determine_action_and_urgency(crop_ready, storm_risk, spoilage_risk, market_opportunity, price_difference) ==
    IF storm_risk /\ crop_ready THEN <<"harvest_now", "critical", "storm_risk">>
    ELSE IF storm_risk /\ ~crop_ready THEN <<"harvest_now", "high", "storm_risk">>
    ELSE IF spoilage_risk = "critical" THEN <<"harvest_now", "high", "spoilage_risk">>
    ELSE IF spoilage_risk = "high" THEN <<"harvest_now", "medium", "spoilage_risk">>
    ELSE IF market_opportunity \in {"excellent", "good"} /\ crop_ready
         THEN <<"sell_now", SellUrgency(price_difference), "market_opportunity">>
    ELSE IF spoilage_risk = "medium" /\ crop_ready
         THEN <<"harvest_now", "low", "spoilage_risk">>
    ELSE <<"wait", "low", "optimal_timing">>

-----------------------------------------------------------------------------
(* Function-level specification: the decision cascade *)

PipeIdle ==
    /\ request = None
    /\ sources = None
    /\ geospatial_data = None
    /\ weather_data = None
    /\ agronomist_data = None
    /\ economist_data = None
    /\ recommendation = None
    /\ raised = FALSE

CacheIdle ==
    /\ satellite_cache = {}
    /\ clock = 0

CascadeInputs ==
    [crop_ready : BOOLEAN, storm_risk : BOOLEAN, spoilage_risk : SpoilageLevels,
     market_opportunity : Opportunities, price_difference : PriceDifferences]

InitCascade ==
    /\ pc = "call"
    /\ args \in CascadeInputs
    /\ ret = None
    /\ PipeIdle
    /\ CacheIdle

DetermineActionAndUrgency ==
    /\ pc = "call"
    /\ ret' = _determine_action_and_urgency(args.crop_ready, args.storm_risk,
                  args.spoilage_risk, args.market_opportunity,
                  args.price_difference)
    /\ pc' = "return"
    /\ UNCHANGED <<args, pipeVars, cacheVars>>

NextCascade == DetermineActionAndUrgency

SpecCascade == InitCascade /\ [][NextCascade]_vars

\* C1: with storm_risk and crop_ready both true the cascade returns
\* (harvest_now, critical, storm_risk) whatever the spoilage risk, the market
\* opportunity and the price difference are.
StormPrecedence ==
    (pc = "return" /\ args.storm_risk /\ args.crop_ready)
        => ret = <<"harvest_now", "critical", "storm_risk">>

\* a ready crop under storm whose spoilage is critical and whose market is
\* excellent: every lower rule of the cascade matches too
StormPrecedenceWitness ==
    /\ pc = "return"
    /\ args.storm_risk /\ args.crop_ready
    /\ args.spoilage_risk = "critical"
    /\ args.market_opportunity = "excellent"
    /\ args.price_difference >= SellUrgencyThreshold
    /\ ret = <<"harvest_now", "critical", "storm_risk">>

\* The seven rules of the cascade as a table of <<guard, result>>, in order.
CascadeRules(a) ==
    << <<a.storm_risk /\ a.crop_ready,
         <<"harvest_now", "critical", "storm_risk">> >>,
       <<a.storm_risk /\ ~a.crop_ready,
         <<"harvest_now", "high", "storm_risk">> >>,
       <<a.spoilage_risk = "critical",
         <<"harvest_now", "high", "spoilage_risk">> >>,
       <<a.spoilage_risk = "high",
         <<"harvest_now", "medium", "spoilage_risk">> >>,
       <<a.market_opportunity \in {"excellent", "good"} /\ a.crop_ready,
         <<"sell_now",
           IF a.price_difference >= 10 * 100 THEN "medium" ELSE "low",
           "market_opportunity">> >>,
       <<a.spoilage_risk = "medium" /\ a.crop_ready,
         <<"harvest_now", "low", "spoilage_risk">> >>,
       <<TRUE, <<"wait", "low", "optimal_timing">> >> >>

FirstMatch(rules) ==
    LET i == CHOOSE j \in 1..Len(rules) :
                 rules[j][1] /\ \A k \in 1..(j - 1) : ~rules[k][1]
    IN  rules[i][2]

\* C2: the cascade returns the result of the first rule of the seven-rule
\* table whose guard holds.
FirstMatchingRuleWins ==
    pc = "return" => ret = FirstMatch(CascadeRules(args))

\* rule 5 fires at the 10-rupee boundary while rule 6 would match as well
FirstMatchingRuleWinsWitness ==
    /\ pc = "return"
    /\ ~args.storm_risk /\ args.crop_ready
    /\ args.spoilage_risk = "medium"
    /\ args.market_opportunity = "good"
    /\ args.price_difference = 10 * 100
    /\ ret = <<"sell_now", "medium", "market_opportunity">>

-----------------------------------------------------------------------------
(* SupervisorAgent._calculate_confidence_and_quality *)

\* cached data older than this many days counts as old
OldCacheDays == 3

\* if 'error' ... elif not cached ... elif cache_age_days > 3: each result is
\* the list of <<quality factor, points deducted>> the category applies
SatelliteDeductionsIndependent(geo_data) ==
    (IF "error" \in DOMAIN geo_data
     THEN << <<"satellite_error", 25>> >> ELSE << >>)
    \o (IF ~Get(geo_data, "cached", FALSE)
        THEN << <<"no_satellite_cache", 15>> >> ELSE << >>)
    \o (IF Get(geo_data, "cache_age_days", 0) > OldCacheDays
        THEN << <<"old_satellite_data", 10>> >> ELSE << >>)

SatelliteDeductions(geo_data) ==
    IF "error" \in DOMAIN geo_data
    THEN << <<"satellite_error", 25>> >>
    ELSE IF ~Get(geo_data, "cached", FALSE)
    THEN << <<"no_satellite_cache", 15>> >>
    ELSE IF Get(geo_data, "cache_age_days", 0) > OldCacheDays
    THEN << <<"old_satellite_data", 10>> >>
    ELSE << >>

WeatherDeductions(wx_data) ==
    IF "error" \in DOMAIN wx_data
    THEN << <<"weather_error", 20>> >>
    ELSE IF Get(wx_data, "fallback_used", FALSE)
    THEN << <<"weather_fallback", 15>> >>
    ELSE << >>

RulesDeductions(agro_data) ==
    IF "error" \in DOMAIN agro_data
    THEN << <<"biological_rules_error", 15>> >>
    ELSE IF ~Truthy(Get(agro_data, "matched_rules", None))
    THEN << <<"no_matching_rules", 10>> >>
    ELSE << >>

MarketDeductions(econ_data) ==
    IF "error" \in DOMAIN econ_data
    THEN << <<"market_error", 10>> >>
    ELSE IF Get(econ_data, "fallback_used", FALSE)
    THEN << <<"market_fallback", 5>> >>
    ELSE IF ~Truthy(Get(econ_data, "best_market", None))
    THEN << <<"no_market_data", 10>> >>
    ELSE << >>

RECURSIVE SumPoints(_)
SumPoints(deductions) ==
    IF deductions = << >> THEN 0
    ELSE deductions[1][2] + SumPoints(Tail(deductions))

\* max(0.0, min(100.0, confidence))
Clamp(confidence) == Max(0, Min(100, confidence))

DataQualityStrict(confidence) ==
    IF confidence > 90 THEN "excellent"
    ELSE IF confidence > 75 THEN "good"
    ELSE IF confidence > 50 THEN "fair"
    ELSE "poor"

DataQuality(confidence) ==
    IF confidence >= 90 THEN "excellent"
    ELSE IF confidence >= 75 THEN "good"
    ELSE IF confidence >= 50 THEN "fair"
    ELSE "poor"

\* returns (confidence, data_quality); quality_factors is the local list the
\* function logs, kept in the result to observe which deductions it applied
_calculate_confidence_and_quality(geo_data, wx_data, agro_data, econ_data) ==
    LET applied == SatelliteDeductions(geo_data)
                   \o WeatherDeductions(wx_data)
                   \o RulesDeductions(agro_data)
                   \o MarketDeductions(econ_data)
        confidence == Clamp(100 - SumPoints(applied))
    IN  [confidence |-> confidence,
         data_quality |-> DataQuality(confidence),
         quality_factors |-> [i \in 1..Len(applied) |-> applied[i][1]]]

-----------------------------------------------------------------------------
(* Function-level specification: confidence scoring over the payload shapes *)
(* the branches and the tests hand to it                                    *)

SampleRule ==
    [id |-> "default_tomato", severity |-> "high", spoilage_time_hours |-> 72]

SampleMarket == [name |-> "Mumbai APMC", price_per_kg |-> 30000]

GeoPayloads ==
    {[ndvi |-> Some(75), cached |-> TRUE, cache_age_days |-> d] :
        d \in 0..MaxCacheAgeDays}
    \cup {[ndvi |-> Some(75), cached |-> TRUE],
          [ndvi |-> None, cached |-> FALSE, message |-> "Data fetch in progress"],
          [error |-> "Satellite unavailable", cached |-> FALSE],
          [error |-> "Service unavailable"],
          [error |-> "stale", cached |-> TRUE, cache_age_days |-> MaxCacheAgeDays],
          None}

WeatherPayloads ==
    {[fallback_used |-> FALSE, source |-> "OpenWeatherMap"],
     [fallback_used |-> TRUE, source |-> "Historical_Average"],
     [error |-> "API timeout", forecast |-> << >>],
     [error |-> "API timeout", fallback_used |-> TRUE],
     None}

AgroPayloads ==
    {[matched_rules |-> <<SampleRule>>],
     [matched_rules |-> << >>],
     [error |-> "Neo4j down", matched_rules |-> << >>],
     [error |-> "Neo4j down", matched_rules |-> <<SampleRule>>],
     None}

EconPayloads ==
    {[best_market |-> SampleMarket, fallback_used |-> FALSE],
     [best_market |-> SampleMarket, fallback_used |-> TRUE],
     [best_market |-> None, fallback_used |-> FALSE],
     [best_market |-> None, fallback_used |-> TRUE],
     [error |-> "Market API down", best_market |-> None],
     None}

InitConfidence ==
    /\ pc = "call"
    /\ args \in [geospatial_data : GeoPayloads, weather_data : WeatherPayloads,
                 agronomist_data : AgroPayloads, economist_data : EconPayloads]
    /\ ret = None
    /\ PipeIdle
    /\ CacheIdle

CalculateConfidenceAndQuality ==
    /\ pc = "call"
    /\ ret' = _calculate_confidence_and_quality(args.geospatial_data,
                  args.weather_data, args.agronomist_data, args.economist_data)
    /\ pc' = "return"
    /\ UNCHANGED <<args, pipeVars, cacheVars>>

NextConfidence == CalculateConfidenceAndQuality

SpecConfidence == InitConfidence /\ [][NextConfidence]_vars

\* C4: for every combination of the four payloads the confidence lies in
\* [0, 100] and data_quality is the bucket of that confidence alone:
\* excellent iff >= 90, good iff in [75, 90), fair iff in [50, 75), poor iff
\* below 50.
ConfidenceBoundedQualityBucketed ==
    pc = "return" =>
        /\ ret.confidence \in 0..100
        /\ (ret.data_quality = "excellent") <=> (ret.confidence >= 90)
        /\ (ret.data_quality = "good")
               <=> (75 <= ret.confidence /\ ret.confidence < 90)
        /\ (ret.data_quality = "fair")
               <=> (50 <= ret.confidence /\ ret.confidence < 75)
        /\ (ret.data_quality = "poor") <=> (ret.confidence < 50)

\* the all-failed combination of the degraded-data test, and each bucket at its
\* lower boundary
ConfidenceBoundedQualityBucketedWitness ==
    /\ pc = "return"
    /\ "error" \in DOMAIN args.geospatial_data
    /\ "error" \in DOMAIN args.weather_data
    /\ "error" \in DOMAIN args.agronomist_data
    /\ "error" \in DOMAIN args.economist_data
    /\ ret.confidence = 30
    /\ ret.data_quality = "poor"

\* The deduction table of the claim: quality factor -> points.
ClaimedPoints ==
    [satellite_error |-> 25, no_satellite_cache |-> 15, old_satellite_data |-> 10,
     weather_error |-> 20, weather_fallback |-> 15,
     biological_rules_error |-> 15, no_matching_rules |-> 10,
     market_error |-> 10, market_fallback |-> 5, no_market_data |-> 10]

SatelliteFactors == {"satellite_error", "no_satellite_cache", "old_satellite_data"}

WeatherFactors == {"weather_error", "weather_fallback"}

RulesFactors == {"biological_rules_error", "no_matching_rules"}

MarketFactors == {"market_error", "market_fallback", "no_market_data"}

\* number of deductions of a category among the applied ones
Applied(factors, category) ==
    Cardinality({i \in 1..Len(factors) : factors[i] \in category})

RECURSIVE ClaimedSum(_)
ClaimedSum(factors) ==
    IF factors = << >> THEN 0
    ELSE ClaimedPoints[factors[1]] + ClaimedSum(Tail(factors))

OtherCategoriesAndTotal ==
    /\ Applied(ret.quality_factors, WeatherFactors) <= 1
    /\ Applied(ret.quality_factors, RulesFactors) <= 1
    /\ Applied(ret.quality_factors, MarketFactors) <= 1
    /\ ret.confidence = 100 - ClaimedSum(ret.quality_factors)

\* C5 as stated: exactly one satellite deduction for every geospatial payload.
ExactlyOneSatelliteDeduction ==
    pc = "return" =>
        /\ Applied(ret.quality_factors, SatelliteFactors) = 1
        /\ OtherCategoriesAndTotal

\* C5 (amended): at most one satellite deduction is applied, and none exactly
\* when the geospatial payload has no error marker and is cached data at most 3
\* days old; at most one deduction is applied in each of the weather, rules and
\* market categories; the confidence is 100 minus the sum of the applied
\* deductions.
AtMostOneDeductionPerCategory ==
    pc = "return" =>
        /\ Applied(ret.quality_factors, SatelliteFactors) <= 1
        /\ (Applied(ret.quality_factors, SatelliteFactors) = 0)
               <=> /\ "error" \notin DOMAIN args.geospatial_data
                   /\ Get(args.geospatial_data, "cached", FALSE)
                   /\ Get(args.geospatial_data, "cache_age_days", 0) <= 3
        /\ OtherCategoriesAndTotal

\* an error-marked, uncached satellite payload next to fresh data elsewhere:
\* two satellite conditions hold, one deduction is applied
AtMostOneDeductionPerCategoryWitness ==
    /\ pc = "return"
    /\ args.geospatial_data = [error |-> "Satellite unavailable", cached |-> FALSE]
    /\ args.economist_data = [best_market |-> None, fallback_used |-> TRUE]
    /\ ret.quality_factors[1] = "satellite_error"
    /\ Applied(ret.quality_factors, SatelliteFactors) = 1
    /\ Applied(ret.quality_factors, MarketFactors) = 1

-----------------------------------------------------------------------------
(* WeatherService.assess_storm_risk over a parsed forecast.  A parsed day is *)
(* [precipitation |-> [probability, amount], wind_speed, ...]; wind_speed    *)
(* is read with day.get('wind_speed', 0.0).                                  *)

\* precip_prob > 0.6
StormProbability == 60

\* precip_amount > 10.0
StormAmount == 10

\* precip_amount > 50.0
HeavyAmount == 50

\* wind_speed > 40.0
StrongWind == 40

\* precip_amount > 25.0
ModerateAmount == 25

Triggers(day) ==
    /\ day.precipitation.probability > StormProbability
    /\ day.precipitation.amount > StormAmount

Impact(day) ==
    IF day.precipitation.amount > HeavyAmount \/ Get(day, "wind_speed", 0) > StrongWind
    THEN "Heavy rain and strong winds expected. Harvest immediately to prevent crop damage."
    ELSE IF day.precipitation.amount > ModerateAmount
    THEN "Moderate rain expected. Consider harvesting soon to avoid quality loss."
    ELSE "Light to moderate rain expected. Monitor conditions closely."

NoStormRisk == [has_storm_risk |-> FALSE, risk_window |-> None, impact |-> None]

StormRisk(i, day) ==
    [has_storm_risk |-> TRUE,
     risk_window |-> Some(IF i = 1 THEN "next 24 hours" ELSE "24-48 hours"),
     impact |-> Some(Impact(day))]

\* the loop without its break: the last triggering day overwrites the result
RECURSIVE ScanWithoutBreak(_, _, _)
ScanWithoutBreak(next_48h, i, found) ==
    IF i > Len(next_48h) THEN found
    ELSE ScanWithoutBreak(next_48h, i + 1,
             IF Triggers(next_48h[i]) THEN StormRisk(i, next_48h[i]) ELSE found)

\* for i, day in enumerate(next_48h): ... break   (i counts from 1 here)
RECURSIVE ScanDays(_, _)
ScanDays(next_48h, i) ==
    IF i > Len(next_48h) THEN NoStormRisk
    ELSE IF Triggers(next_48h[i]) THEN StormRisk(i, next_48h[i])
    ELSE ScanDays(next_48h, i + 1)

AssessLastTrigger(forecast) == ScanWithoutBreak(Take(forecast, 2), 1, NoStormRisk)

AssessWholeForecast(forecast) == ScanDays(forecast, 1)

assess_storm_risk(forecast) == ScanDays(Take(forecast, 2), 1)

-----------------------------------------------------------------------------
(* Function-level specification: storm assessment of forecasts of up to      *)
(* MaxForecastDays days                                                      *)

\* Days around every threshold of the classifier.  A day whose probability is
\* at the threshold cannot trigger whatever its amount and wind are; it is
\* represented by its heaviest instance.
ForecastDays ==
    {[precipitation |-> [probability |-> StormProbability, amount |-> HeavyAmount + 1],
      wind_speed |-> StrongWind + 1]}
    \cup {[precipitation |-> [probability |-> StormProbability + 1, amount |-> a],
           wind_speed |-> w] :
             a \in {StormAmount, StormAmount + 1, ModerateAmount, ModerateAmount + 1,
                    HeavyAmount, HeavyAmount + 1},
             w \in {StrongWind, StrongWind + 1}}
    \cup {[precipitation |-> [probability |-> StormProbability + 1, amount |-> a]] :
             a \in {StormAmount, StormAmount + 1, ModerateAmount, ModerateAmount + 1,
                    HeavyAmount, HeavyAmount + 1}}

Forecasts == UNION {[1..n -> ForecastDays] : n \in 0..MaxForecastDays}

InitStorm ==
    /\ pc = "call"
    /\ args \in [forecast : Forecasts]
    /\ ret = None
    /\ PipeIdle
    /\ CacheIdle

AssessStormRisk ==
    /\ pc = "call"
    /\ ret' = assess_storm_risk(args.forecast)
    /\ pc' = "return"
    /\ UNCHANGED <<args, pipeVars, cacheVars>>

NextStorm == AssessStormRisk

SpecStorm == InitStorm /\ [][NextStorm]_vars

\* the storm criterion of the claims, on day k (from 1) of the forecast
DayTriggers(forecast, k) ==
    /\ k <= Len(forecast)
    /\ forecast[k].precipitation.probability > 60
    /\ forecast[k].precipitation.amount > 10

\* C7: has_storm_risk is true iff day 0 or day 1 has probability > 0.6 and
\* amount > 10; risk_window is "next 24 hours" iff day 0 triggers and
\* "24-48 hours" iff day 0 does not and day 1 does; replacing any day at index
\* 2 or later by any other day leaves the result unchanged.
StormWindowFirstTwoDays ==
    pc = "return" =>
        LET f == args.forecast
        IN  /\ ret.has_storm_risk <=> (DayTriggers(f, 1) \/ DayTriggers(f, 2))
            /\ (ret.risk_window = Some("next 24 hours")) <=> DayTriggers(f, 1)
            /\ (ret.risk_window = Some("24-48 hours"))
                   <=> (~DayTriggers(f, 1) /\ DayTriggers(f, 2))
            /\ \A k \in 3..Len(f) : \A d \in ForecastDays :
                   assess_storm_risk([f EXCEPT ![k] = d]) = ret

\* day 0 and day 1 stay below the criterion, day 2 is a heavy storm
StormWindowFirstTwoDaysWitness ==
    /\ pc = "return"
    /\ Len(args.forecast) = 3
    /\ ~DayTriggers(args.forecast, 1)
    /\ ~DayTriggers(args.forecast, 2)
    /\ DayTriggers(args.forecast, 3)
    /\ ret.has_storm_risk = FALSE

\* the impact tier of the claims for a day
ImpactTier(day) ==
    IF day.precipitation.amount > 50 \/ ("wind_speed" \in DOMAIN day /\ day.wind_speed > 40)
    THEN "Heavy rain and strong winds expected. Harvest immediately to prevent crop damage."
    ELSE IF day.precipitation.amount > 25
    THEN "Moderate rain expected. Consider harvesting soon to avoid quality loss."
    ELSE "Light to moderate rain expected. Monitor conditions closely."

\* C8: when a day of the window triggers, the impact is the tier of the first
\* triggering day (severe if its amount > 50 or wind_speed > 40, moderate if
\* its amount > 25, light otherwise), whatever the later day is; when no day
\* of the window triggers, has_storm_risk is false and risk_window and impact
\* are both null.
ImpactFromFirstTrigger ==
    pc = "return" =>
        LET f == args.forecast
        IN  /\ DayTriggers(f, 1) => ret.impact = Some(ImpactTier(f[1]))
            /\ (~DayTriggers(f, 1) /\ DayTriggers(f, 2))
                   => ret.impact = Some(ImpactTier(f[2]))
            /\ (~DayTriggers(f, 1) /\ ~DayTriggers(f, 2))
                   => /\ ret.has_storm_risk = FALSE
                      /\ ret.risk_window = None
                      /\ ret.impact = None

\* day 0 triggers with light rain, day 1 is a severe storm: the impact stays
\* the light wording
ImpactFromFirstTriggerWitness ==
    /\ pc = "return"
    /\ DayTriggers(args.forecast, 1)
    /\ DayTriggers(args.forecast, 2)
    /\ args.forecast[1].precipitation.amount = 11
    /\ "wind_speed" \notin DOMAIN args.forecast[1]
    /\ args.forecast[2].precipitation.amount = 51
    /\ ret.impact = Some("Light to moderate rain expected. Monitor conditions closely.")
    /\ ret.risk_window = Some("next 24 hours")

-----------------------------------------------------------------------------
(* Exceptions: a call that may raise returns Ok(value) or Raise(kind) *)

Ok(v) == [ok |-> TRUE, value |-> v]

Raise(kind) == [ok |-> FALSE, exception |-> kind]

HasKeys(d, keys) == keys \subseteq DOMAIN d

-----------------------------------------------------------------------------
(* Calendar: datetime.now() + timedelta(days=i), as [month, day] of a       *)
(* common year                                                               *)

DaysInMonth(month) ==
    IF month = 2 THEN 28
    ELSE IF month \in {4, 6, 9, 11} THEN 30
    ELSE 31

Dates == UNION {{[month |-> m, day |-> d] : d \in 1..DaysInMonth(m)} : m \in 1..12}

NextDay(date) ==
    IF date.day < DaysInMonth(date.month)
    THEN [month |-> date.month, day |-> date.day + 1]
    ELSE [month |-> IF date.month = 12 THEN 1 ELSE date.month + 1, day |-> 1]

RECURSIVE AddDays(_, _)
AddDays(date, i) == IF i = 0 THEN date ELSE AddDays(NextDay(date), i - 1)

-----------------------------------------------------------------------------
(* WeatherService *)

\* for i in range(8)
ForecastLength == 8

\* WeatherService._generate_mock_forecast: raw days for i = 0..7
MockDay(base_date, i) ==
    [date |-> AddDays(base_date, i),
     temp_max |-> 320 + 10 * (i % 3),
     temp_min |-> 220 + 10 * (i % 3),
     humidity |-> 75 + (i % 10),
     precip_probability |-> 30 + 5 * i,
     precip_amount |-> IF i > 2 THEN 5 ELSE 0,
     condition |-> IF i < 3 THEN "partly_cloudy" ELSE "rainy",
     wind_speed |-> 15 + (i % 5)]

_generate_mock_forecast(base_date) ==
    [k \in 1..ForecastLength |-> MockDay(base_date, k - 1)]

\* one element of data['daily'] turned into a raw day; KeyError when a key
\* read with [] is missing
RawDayKeys == {"dt", "temp", "humidity", "weather"}

RawDay(day_data) ==
    [date |-> day_data.dt,
     temp_max |-> day_data.temp.max,
     temp_min |-> day_data.temp.min,
     humidity |-> day_data.humidity,
     precip_probability |-> Get(day_data, "pop", 0),
     precip_amount |-> Get(day_data, "rain", 0),
     condition |-> day_data.weather,
     wind_speed |-> Get(day_data, "wind_speed", 0)]

\* WeatherService.fetch_8day_forecast.  api is what the HTTP call does:
\* [kind |-> "http_error"], [kind |-> "timeout"] or [kind |-> "ok", daily |-> ...]
fetch_8day_forecast(has_api_key, api, now) ==
    IF ~has_api_key THEN _generate_mock_forecast(now)
    ELSE IF api.kind # "ok" THEN _generate_mock_forecast(now)
    ELSE LET daily == Take(api.daily, ForecastLength)
         IN  IF \E k \in 1..Len(daily) : ~HasKeys(daily[k], RawDayKeys)
             THEN _generate_mock_forecast(now)
             ELSE [k \in 1..Len(daily) |-> RawDay(daily[k])]

\* WeatherService.parse_forecast
ParsedDayKeys == {"date", "temp_max", "temp_min", "humidity", "precip_probability", "precip_amount", "condition"}

ParsedDay(day) ==
    [date |-> day.date,
     temperature |-> [max |-> day.temp_max, min |-> day.temp_min],
     humidity |-> day.humidity,
     precipitation |-> [probability |-> day.precip_probability,
                        amount |-> day.precip_amount],
     condition |-> day.condition,
     wind_speed |-> Get(day, "wind_speed", 0)]

parse_forecast(raw_forecast) ==
    IF \E k \in 1..Len(raw_forecast) : ~HasKeys(raw_forecast[k], ParsedDayKeys)
    THEN Raise("KeyError")
    ELSE Ok([k \in 1..Len(raw_forecast) |-> ParsedDay(raw_forecast[k])])

\* WeatherService.get_historical_average
MonsoonAverage == [temp_max |-> 300, temp_min |-> 240, humidity |-> 85, precip_probability |-> 70, precip_amount |-> 15]

WinterAverage == [temp_max |-> 250, temp_min |-> 150, humidity |-> 60, precip_probability |-> 10, precip_amount |-> 2]

SummerAverage == [temp_max |-> 380, temp_min |-> 250, humidity |-> 50, precip_probability |-> 20, precip_amount |-> 3]

get_historical_average(date) ==
    IF 6 <= date.month /\ date.month <= 9 THEN MonsoonAverage
    ELSE IF date.month \in {12, 1, 2} THEN WinterAverage
    ELSE SummerAverage

\* the day the except branch of get_weather_forecast builds for index i
HistoricalDay(base_date, i) ==
    LET date == AddDays(base_date, i)
        historical == get_historical_average(date)
    IN  [date |-> date,
         temperature |-> [max |-> historical.temp_max, min |-> historical.temp_min],
         humidity |-> historical.humidity,
         precipitation |-> [probability |-> historical.precip_probability,
                            amount |-> historical.precip_amount],
         condition |-> "historical_average",
         wind_speed |-> 10]

HistoricalFallback(now) ==
    LET forecast == [k \in 1..ForecastLength |-> HistoricalDay(now, k - 1)]
    IN  [forecast |-> forecast,
         risk_assessment |-> assess_storm_risk(forecast),
         source |-> "Historical_Average",
         fallback_used |-> TRUE,
         data_type |-> "FALLBACK",
         warning |-> "Using historical weather averages due to API unavailability"]

\* WeatherService.get_weather_forecast (last_updated, a timestamp, is left out)
get_weather_forecast(has_api_key, api, now, use_fallback) ==
    IF use_fallback THEN HistoricalFallback(now)
    ELSE LET raw_forecast == fetch_8day_forecast(has_api_key, api, now)
             parsed == parse_forecast(raw_forecast)
         IN  IF ~parsed.ok THEN HistoricalFallback(now)
             ELSE [forecast |-> parsed.value,
                   risk_assessment |-> assess_storm_risk(parsed.value),
                   source |-> IF has_api_key THEN "OpenWeatherMap" ELSE "Mock_Data",
                   fallback_used |-> ~has_api_key,
                   data_type |-> IF has_api_key THEN "REAL" ELSE "MOCK"]

-----------------------------------------------------------------------------
(* Function-level specification: get_weather_forecast on every day of the   *)
(* year, with and without an API key, against each behaviour of the         *)
(* provider                                                                  *)

\* elements of the provider's data['daily']; pop, rain and wind_speed are
\* optional there
ApiDay(kind, dt) ==
    IF kind = "calm"
    THEN [dt |-> dt, temp |-> [max |-> 310, min |-> 230], humidity |-> 70,
          pop |-> 20, weather |-> "clouds", wind_speed |-> 12]
    ELSE IF kind = "storm"
    THEN [dt |-> dt, temp |-> [max |-> 280, min |-> 240], humidity |-> 90,
          pop |-> 80, rain |-> 30, weather |-> "rain", wind_speed |-> 45]
    ELSE IF kind = "shower"
    THEN [dt |-> dt, temp |-> [max |-> 290, min |-> 240], humidity |-> 85,
          pop |-> 70, rain |-> 12, weather |-> "rain"]
    ELSE [dt |-> dt, humidity |-> 70]

ApiDayKinds == {"calm", "storm", "shower", "malformed"}

ApiDaily(now, first, second, n) ==
    [k \in 1..n |-> ApiDay(IF k = 1 THEN first ELSE IF k = 2 THEN second ELSE "calm",
                           AddDays(now, k - 1))]

ApiOutcomes(now) ==
    {[kind |-> "http_error"], [kind |-> "timeout"]}
    \cup {[kind |-> "ok", daily |-> ApiDaily(now, first, second, n)] :
             first \in ApiDayKinds, second \in ApiDayKinds,
             n \in {0, 2, ForecastLength, ForecastLength + 1}}

InitWeather ==
    /\ pc = "call"
    /\ \E now \in Dates :
           args \in [now : {now}, has_api_key : BOOLEAN, api : ApiOutcomes(now),
                     use_fallback : BOOLEAN]
    /\ ret = None
    /\ PipeIdle
    /\ CacheIdle

GetWeatherForecast ==
    /\ pc = "call"
    /\ ret' = get_weather_forecast(args.has_api_key, args.api, args.now,
                                   args.use_fallback)
    /\ pc' = "return"
    /\ UNCHANGED <<args, pipeVars, cacheVars>>

NextWeather == GetWeatherForecast

SpecWeather == InitWeather /\ [][NextWeather]_vars

\* the request to the provider was made and failed: an HTTP error status, a
\* timeout or connection error, or a response that cannot be read
FetchFailed(has_api_key, api) ==
    /\ has_api_key
    /\ \/ api.kind # "ok"
       \/ \E k \in 1..Min(Len(api.daily), 8) :
              ~({"dt", "temp", "humidity", "weather"} \subseteq DOMAIN api.daily[k])

\* the documented climatology band for a calendar month
ClaimedBand(month) ==
    IF month \in {6, 7, 8, 9}
    THEN [max |-> 300, min |-> 240, humidity |-> 85, probability |-> 70, amount |-> 15]
    ELSE IF month \in {12, 1, 2}
    THEN [max |-> 250, min |-> 150, humidity |-> 60, probability |-> 10, amount |-> 2]
    ELSE [max |-> 380, min |-> 250, humidity |-> 50, probability |-> 20, amount |-> 3]

IsClimatologyFallback(r, now) ==
    /\ Len(r.forecast) = 8
    /\ \A k \in 1..Len(r.forecast) :
           LET day == r.forecast[k]
               band == ClaimedBand(AddDays(now, k - 1).month)
           IN  /\ day.date = AddDays(now, k - 1)
               /\ day.temperature = [max |-> band.max, min |-> band.min]
               /\ day.humidity = band.humidity
               /\ day.precipitation =
                      [probability |-> band.probability, amount |-> band.amount]
    /\ r.fallback_used = TRUE
    /\ r.source = "Historical_Average"
    /\ r.risk_assessment = assess_storm_risk(r.forecast)

\* C9: whenever the forecast fetch fails, get_weather_forecast returns the
\* 8-day climatology series of the calendar months of its days, with
\* fallback_used = true and source Historical_Average, and the storm
\* assessment of that series.
ClimatologyOnFetchFailure ==
    (pc = "return" /\ FetchFailed(args.has_api_key, args.api))
        => IsClimatologyFallback(ret, args.now)

-----------------------------------------------------------------------------
(* AgronomistAgent over a rule store.  The store is                          *)
(*   [status |-> "up", rules |-> <<node, ...>>]  or                          *)
(*   [status |-> "unavailable"] (neo4j ServiceUnavailable)  or               *)
(*   [status |-> "error"] (any other exception of the session).              *)
(* A node joins SpoilageRule, its Crop and its Source:                       *)
(*   [crop, id, condition, temp_min, temp_max, humidity_min, humidity_max,   *)
(*    spoilage_time_hours, severity, source_reference, source_name,          *)
(*    source_type, credibility]                                              *)

\* crop names as callers spell them
Crops == {"tomato", "Tomato", "TOMATO", "onion", "Onion", "potato"}

\* str.lower()
Lower(crop) ==
    CASE crop \in {"tomato", "Tomato", "TOMATO"} -> "tomato"
      [] crop \in {"onion", "Onion", "ONION"} -> "onion"
      [] OTHER -> crop

\* str.capitalize()
Capitalize(crop) ==
    CASE crop \in {"tomato", "Tomato", "TOMATO"} -> "Tomato"
      [] crop \in {"onion", "Onion", "ONION"} -> "Onion"
      [] crop = "potato" -> "Potato"
      [] OTHER -> crop

FallbackSource == [name |-> "Default Rules", type |-> "FALLBACK", reference |-> "Conservative estimate", credibility |-> 50]

DefaultTomatoRule ==
    [id |-> "default_tomato",
     condition |-> "Default conservative rule (database unavailable)",
     temp_range |-> [min |-> 0, max |-> 500],
     humidity_range |-> [min |-> 0, max |-> 100],
     spoilage_time_hours |-> 72,
     severity |-> "high",
     source |-> FallbackSource]

DefaultOnionRule ==
    [id |-> "default_onion",
     condition |-> "Default conservative rule (database unavailable)",
     temp_range |-> [min |-> 0, max |-> 500],
     humidity_range |-> [min |-> 0, max |-> 100],
     spoilage_time_hours |-> 168,
     severity |-> "medium",
     source |-> FallbackSource]

\* AgronomistAgent._get_default_rules
_get_default_rules(crop) ==
    IF Lower(crop) = "tomato" THEN <<DefaultTomatoRule>>
    ELSE IF Lower(crop) = "onion" THEN <<DefaultOnionRule>>
    ELSE << >>

\* ORDER BY CASE r.severity ... END: a severity the CASE does not list gives
\* null, which sorts after every rank in ascending order
SeverityRank(severity) ==
    CASE severity = "critical" -> 1
      [] severity = "high" -> 2
      [] severity = "medium" -> 3
      [] severity = "low" -> 4
      [] OTHER -> 5

\* a WHERE clause that forgets the humidity range
MatchesTemperatureOnly(node, crop_name, temperature, humidity) ==
    /\ node.crop = crop_name
    /\ node.temp_min <= temperature /\ temperature <= node.temp_max

\* WHERE r.temp_min <= $temperature <= r.temp_max AND ... on (c:Crop {name})
Matches(node, crop_name, temperature, humidity) ==
    /\ node.crop = crop_name
    /\ node.temp_min <= temperature /\ temperature <= node.temp_max
    /\ node.humidity_min <= humidity /\ humidity <= node.humidity_max

\* an ORDER BY that forgets r.spoilage_time_hours
PrecedesBySeverityOnly(a, b) ==
    SeverityRank(a.severity) < SeverityRank(b.severity)

Precedes(a, b) ==
    \/ SeverityRank(a.severity) < SeverityRank(b.severity)
    \/ /\ SeverityRank(a.severity) = SeverityRank(b.severity)
       /\ a.spoilage_time_hours < b.spoilage_time_hours

\* ORDER BY of the query
RECURSIVE InsertOrdered(_, _)
InsertOrdered(sorted, node) ==
    IF sorted = << >> THEN <<node>>
    ELSE IF Precedes(node, Head(sorted)) THEN <<node>> \o sorted
    ELSE <<Head(sorted)>> \o InsertOrdered(Tail(sorted), node)

RECURSIVE OrderBy(_)
OrderBy(nodes) ==
    IF nodes = << >> THEN << >>
    ELSE InsertOrdered(OrderBy(SubSeq(nodes, 1, Len(nodes) - 1)), nodes[Len(nodes)])

\* LIMIT 5
QueryLimit == 5

\* the rule dict built from a record of the result
RuleOf(record) ==
    [id |-> record.id,
     condition |-> record.condition,
     temp_range |-> [min |-> record.temp_min, max |-> record.temp_max],
     humidity_range |-> [min |-> record.humidity_min, max |-> record.humidity_max],
     spoilage_time_hours |-> record.spoilage_time_hours,
     severity |-> record.severity,
     source |-> [name |-> record.source_name, type |-> record.source_type,
                 reference |-> record.source_reference,
                 credibility |-> record.credibility]]

RunQuery(nodes, crop_name, temperature, humidity) ==
    LET Selected(node) == Matches(node, crop_name, temperature, humidity)
        result == Take(OrderBy(SelectSeq(nodes, Selected)), QueryLimit)
    IN  [k \in 1..Len(result) |-> RuleOf(result[k])]

\* a query that answers a store failure with no rules at all
QueryWithoutFallback(store, crop, temperature, humidity) ==
    IF store.status # "up" THEN << >>
    ELSE RunQuery(store.rules, Capitalize(crop), temperature, humidity)

\* AgronomistAgent.query_spoilage_rules
query_spoilage_rules(store, crop, temperature, humidity) ==
    IF store.status # "up" THEN _get_default_rules(crop)
    ELSE RunQuery(store.rules, Capitalize(crop), temperature, humidity)

\* a display that still counts 168 hours in days
DisplayOfWeekExclusive(hours) ==
    IF hours < 24 THEN ToString(hours) \o " hours"
    ELSE IF hours <= 168
    THEN ToString(hours \div 24) \o (IF hours \div 24 > 1 THEN " days" ELSE " day")
    ELSE ToString(hours \div 168) \o (IF hours \div 168 > 1 THEN " weeks" ELSE " week")

\* hours -> display of calculate_spoilage_timeline
DisplayOf(hours) ==
    IF hours < 24 THEN ToString(hours) \o " hours"
    ELSE IF hours < 168
    THEN ToString(hours \div 24) \o (IF hours \div 24 > 1 THEN " days" ELSE " day")
    ELSE ToString(hours \div 168) \o (IF hours \div 168 > 1 THEN " weeks" ELSE " week")

\* AgronomistAgent.calculate_spoilage_timeline
calculate_spoilage_timeline(rules) ==
    IF rules = << >>
    THEN [time_to_spoilage_hours |-> None,
          time_to_spoilage_display |-> "Unknown",
          risk_level |-> "unknown",
          primary_rule |-> None]
    ELSE [time_to_spoilage_hours |-> Some(rules[1].spoilage_time_hours),
          time_to_spoilage_display |-> DisplayOf(rules[1].spoilage_time_hours),
          risk_level |-> rules[1].severity,
          primary_rule |-> rules[1]]

\* the factors with each elif read as an if
RiskFactorsWithoutElse(rules) ==
    IF rules = << >> THEN << >>
    ELSE LET primary_rule == rules[1]
             temp_range == primary_rule.temp_range
             humidity_range == primary_rule.humidity_range
         IN  (IF temp_range.max > 300
              THEN <<"High temperature accelerating spoilage">> ELSE << >>)
             \o (IF temp_range.min < 100
                 THEN <<"Low temperature risk (chilling injury)">> ELSE << >>)
             \o (IF humidity_range.min > 85
                 THEN <<"High humidity promoting fungal growth">> ELSE << >>)
             \o (IF humidity_range.max < 70
                 THEN <<"Low humidity causing dehydration">> ELSE << >>)
             \o <<primary_rule.condition>>

\* AgronomistAgent._extract_risk_factors
_extract_risk_factors(rules) ==
    IF rules = << >> THEN << >>
    ELSE LET primary_rule == rules[1]
             temp_range == primary_rule.temp_range
             humidity_range == primary_rule.humidity_range
         IN  (IF temp_range.max > 300
              THEN <<"High temperature accelerating spoilage">>
              ELSE IF temp_range.min < 100
              THEN <<"Low temperature risk (chilling injury)">>
              ELSE << >>)
             \o (IF humidity_range.min > 85
                 THEN <<"High humidity promoting fungal growth">>
                 ELSE IF humidity_range.max < 70
                 THEN <<"Low humidity causing dehydration">>
                 ELSE << >>)
             \o <<primary_rule.condition>>

\* AgronomistAgent._generate_citations: the loop over rules with seen_sources;
\* source_key is the string f"{source['type']}:{source['reference']}"
RECURSIVE CiteFrom(_, _, _)
CiteFrom(rules, k, seen_sources) ==
    IF k > Len(rules) THEN << >>
    ELSE LET source == rules[k].source
             source_key == source.type \o ":" \o source.reference
         IN  IF source_key \notin seen_sources
             THEN <<[source |-> source.name, type |-> source.type,
                     reference |-> source.reference,
                     credibility |-> source.credibility]>>
                  \o CiteFrom(rules, k + 1, seen_sources \cup {source_key})
             ELSE CiteFrom(rules, k + 1, seen_sources)

_generate_citations(rules) == CiteFrom(rules, 1, {})

\* AgronomistAgent.get_crop_related_concepts with the default relationship
\* types; {} when the session fails
get_crop_related_concepts(store, crop) ==
    IF store.status # "up" THEN None
    ELSE LET OfCrop(node) == node.crop = Capitalize(crop)
             nodes == SelectSeq(store.rules, OfCrop)
         IN  [conditions |-> << >>,
              rules_summary |->
                  [total_rules |-> Len(nodes),
                   severity_levels |-> {nodes[k].severity : k \in 1..Len(nodes)}]]

\* AgronomistAgent.assess_spoilage_risk (timestamp left out)
assess_spoilage_risk(store, crop, temperature, humidity) ==
    LET rules == query_spoilage_rules(store, crop, temperature, humidity)
    IN  [crop |-> crop,
         conditions |-> [temperature |-> temperature, humidity |-> humidity],
         matched_rules |-> rules,
         spoilage_timeline |-> calculate_spoilage_timeline(rules),
         risk_factors |-> _extract_risk_factors(rules),
         citations |-> _generate_citations(rules),
         related_concepts |-> get_crop_related_concepts(store, crop)]

-----------------------------------------------------------------------------
(* Function-level specification: _extract_risk_factors on rule lists of up  *)
(* to two rules whose first rule has every combination of range bounds      *)
(* around the thresholds                                                    *)

RiskRule(temp_min, temp_max, humidity_min, humidity_max, condition) ==
    [temp_range |-> [min |-> temp_min, max |-> temp_max],
     humidity_range |-> [min |-> humidity_min, max |-> humidity_max],
     condition |-> condition]

RiskRules ==
    {RiskRule(temp_min, temp_max, humidity_min, humidity_max, "storage condition") :
         temp_min \in {50, 99, 100}, temp_max \in {250, 300, 301},
         humidity_min \in {60, 85, 86}, humidity_max \in {69, 70, 95}}

RiskRuleLists ==
    {<< >>} \cup {<<rule>> : rule \in RiskRules}
    \cup {<<rule, RiskRule(50, 350, 90, 60, "another condition")>> : rule \in RiskRules}

InitRiskFactors ==
    /\ pc = "call"
    /\ args \in [rules : RiskRuleLists]
    /\ ret = None
    /\ PipeIdle
    /\ CacheIdle

ExtractRiskFactors ==
    /\ pc = "call"
    /\ ret' = [factors |-> _extract_risk_factors(args.rules)]
    /\ pc' = "return"
    /\ UNCHANGED <<args, pipeVars, cacheVars>>

NextRiskFactors == ExtractRiskFactors

SpecRiskFactors == InitRiskFactors /\ [][NextRiskFactors]_vars

HasFactor(factor) == \E k \in 1..Len(ret.factors) : ret.factors[k] = factor

\* C27: _extract_risk_factors returns the empty list for an empty rule list;
\* otherwise it is derived only from the first rule's stated ranges: the
\* high-temperature factor iff temp_range.max > 30, the chilling-injury factor
\* iff temp_range.max <= 30 and temp_range.min < 10 (never both), the
\* fungal-growth factor iff humidity_range.min > 85, the dehydration factor iff
\* humidity_range.min <= 85 and humidity_range.max < 70 (never both), and its
\* last element is always the rule's condition text, so it has between 1 and
\* 3 elements.
RiskFactorsFromFirstRule ==
    pc = "return" =>
        IF args.rules = << >> THEN ret.factors = << >>
        ELSE LET temp_range == args.rules[1].temp_range
                 humidity_range == args.rules[1].humidity_range
                 high == HasFactor("High temperature accelerating spoilage")
                 chilling == HasFactor("Low temperature risk (chilling injury)")
                 fungal == HasFactor("High humidity promoting fungal growth")
                 dehydration == HasFactor("Low humidity causing dehydration")
             IN  /\ high <=> temp_range.max > 300
                 /\ chilling <=> (temp_range.max <= 300 /\ temp_range.min < 100)
                 /\ ~(high /\ chilling)
                 /\ fungal <=> humidity_range.min > 85
                 /\ dehydration <=> (humidity_range.min <= 85 /\ humidity_range.max < 70)
                 /\ ~(fungal /\ dehydration)
                 /\ Len(ret.factors) \in 1..3
                 /\ ret.factors[Len(ret.factors)] = args.rules[1].condition

\* a first rule that is hot and starts below 10 degrees gives the
\* high-temperature factor alone, before the condition text
RiskFactorsFromFirstRuleWitness ==
    /\ pc = "return"
    /\ Len(args.rules) = 2
    /\ args.rules[1].temp_range.max > 300
    /\ args.rules[1].temp_range.min < 100
    /\ args.rules[1].humidity_range.min = 85
    /\ args.rules[1].humidity_range.max = 69
    /\ ret.factors = <<"High temperature accelerating spoilage",
                       "Low humidity causing dehydration", "storage condition">>

-----------------------------------------------------------------------------
(* Function-level specification: _generate_citations on every list of up to *)
(* MaxCitedRules rules drawn from five sources, two of them with the same   *)
(* type and reference, two with a colon in the type or the reference        *)

MaxCitedRules == 3

CitedSources ==
    {[name |-> "ICAR Post-Harvest Manual", type |-> "ICAR_Manual",
      reference |-> "Section 3.2.1", credibility |-> 95],
     [name |-> "ICAR Manual, 2nd edition", type |-> "ICAR_Manual",
      reference |-> "Section 3.2.1", credibility |-> 90],
     [name |-> "AGROVOC Thesaurus", type |-> "AGROVOC",
      reference |-> "Concept c_7760", credibility |-> 90],
     [name |-> "ICAR Bulletin", type |-> "ICAR",
      reference |-> "2023:TOM", credibility |-> 85],
     [name |-> "ICAR Yearbook", type |-> "ICAR:2023",
      reference |-> "TOM", credibility |-> 80]}

CitedRuleLists ==
    UNION {[1..n -> {[source |-> source] : source \in CitedSources}] : n \in 0..MaxCitedRules}

InitCitations ==
    /\ pc = "call"
    /\ args \in [rules : CitedRuleLists]
    /\ ret = None
    /\ PipeIdle
    /\ CacheIdle

GenerateCitations ==
    /\ pc = "call"
    /\ ret' = [citations |-> _generate_citations(args.rules)]
    /\ pc' = "return"
    /\ UNCHANGED <<args, pipeVars, cacheVars>>

NextCitations == GenerateCitations

SpecCitations == InitCitations /\ [][NextCitations]_vars

SamePair(rule, other) ==
    rule.source.type = other.source.type /\ rule.source.reference = other.source.reference

\* the positions of the rules that are the first to carry their pair
FirstOccurrences ==
    {k \in 1..Len(args.rules) : \A j \in 1..(k - 1) : ~SamePair(args.rules[j], args.rules[k])}

NthFirstOccurrence(i) ==
    CHOOSE k \in FirstOccurrences : Cardinality({j \in FirstOccurrences : j < k}) = i - 1

\* C28: _generate_citations returns exactly one citation per distinct
\* (source.type, source.reference) pair occurring in the rule list, in order of
\* first occurrence and with the fields of the first rule carrying that pair;
\* two rules whose pairs differ always yield two citations, and rules with the
\* same pair yield one.
OneCitationPerSourcePair ==
    pc = "return" =>
        /\ Len(ret.citations) = Cardinality(FirstOccurrences)
        /\ \A i \in 1..Len(ret.citations) :
               LET source == args.rules[NthFirstOccurrence(i)].source
               IN  ret.citations[i] = [source |-> source.name, type |-> source.type,
                                       reference |-> source.reference,
                                       credibility |-> source.credibility]

-----------------------------------------------------------------------------
(* Function-level specification: query_spoilage_rules against a reachable,  *)
(* an empty and an unreachable rule store                                    *)

IcarSource == [source_name |-> "ICAR Post-Harvest Manual", source_type |-> "ICAR", credibility |-> 95]

Node(crop, id, severity, hours, temp, humidity, reference) ==
    [crop |-> crop, id |-> id, condition |-> id,
     temp_min |-> temp[1], temp_max |-> temp[2],
     humidity_min |-> humidity[1], humidity_max |-> humidity[2],
     spoilage_time_hours |-> hours, severity |-> severity,
     source_reference |-> reference,
     source_name |-> IcarSource.source_name,
     source_type |-> IcarSource.source_type,
     credibility |-> IcarSource.credibility]

RuleBase ==
    << Node("Tomato", "tomato_cool_storage", "low", 240, <<100, 200>>, <<60, 95>>, "p. 40"),
       Node("Tomato", "tomato_warm_humid", "high", 48, <<250, 350>>, <<70, 100>>, "p. 45"),
       Node("Tomato", "tomato_hot_wet", "critical", 24, <<300, 400>>, <<85, 100>>, "p. 45"),
       Node("Onion", "onion_warm", "medium", 168, <<250, 350>>, <<60, 80>>, "p. 61"),
       Node("Onion", "onion_humid", "high", 96, <<200, 400>>, <<80, 100>>, "p. 62") >>

StoreStates ==
    {[status |-> "unavailable"], [status |-> "error"],
     [status |-> "up", rules |-> RuleBase], [status |-> "up", rules |-> << >>]}

Temperatures == {150, 250, 320}

Humidities == {60, 75, 90}

\* tomato rules in no particular order: rules that share a severity, a rule of
\* a severity outside the four of the ORDER BY, more rules than the LIMIT
RulePool ==
    << Node("Tomato", "tomato_any_low", "low", 240, <<0, 500>>, <<0, 100>>, "p. 40"),
       Node("Tomato", "tomato_warm_high", "high", 48, <<200, 350>>, <<60, 100>>, "p. 45"),
       Node("Tomato", "tomato_hot_critical", "critical", 24, <<300, 400>>, <<85, 100>>, "p. 45"),
       Node("Tomato", "tomato_humid_high", "high", 36, <<250, 350>>, <<70, 100>>, "p. 46"),
       Node("Tomato", "tomato_any_medium", "medium", 96, <<0, 500>>, <<0, 100>>, "p. 47"),
       Node("Tomato", "tomato_any_critical", "critical", 12, <<0, 500>>, <<0, 100>>, "p. 48"),
       Node("Tomato", "tomato_any_moderate", "moderate", 60, <<0, 500>>, <<0, 100>>, "p. 49") >>

PoolIds == {RulePool[k].id : k \in 1..Len(RulePool)}

\* the rules of the pool that a store holds
Holding(ids) ==
    LET Held(node) == node.id \in ids
    IN  SelectSeq(RulePool, Held)

\* the rule store of a query: unreachable, failing, or up with some content
RuleStores ==
    StoreStates \cup {[status |-> "up", rules |-> Holding(ids)] : ids \in SUBSET PoolIds}

\* readings in tenths of a degree, frost and heat beyond 50 degrees included
ReadingTemperatures == Temperatures \cup {0 - 20, 520}

InitRules ==
    /\ pc = "call"
    /\ args \in [store : RuleStores, crop : Crops, temperature : ReadingTemperatures,
                 humidity : Humidities]
    /\ ret = None
    /\ PipeIdle
    /\ CacheIdle

QuerySpoilageRules ==
    /\ pc = "call"
    /\ ret' = query_spoilage_rules(args.store, args.crop, args.temperature,
                                   args.humidity)
    /\ pc' = "return"
    /\ UNCHANGED <<args, pipeVars, cacheVars>>

NextRules == QuerySpoilageRules

SpecRules == InitRules /\ [][NextRules]_vars

\* crop names are compared case-insensitively
IsTomato(crop) == crop \in {"tomato", "Tomato", "TOMATO"}

IsOnion(crop) == crop \in {"onion", "Onion", "ONION"}

\* C10: when the rule store cannot be reached during the query, the result is
\* exactly one rule with id default_tomato, 72 hours and severity high for
\* tomato, exactly one rule with id default_onion, 168 hours and severity
\* medium for onion, and the empty list for every other crop (crop names
\* compared without regard to letter case).
DefaultRulesWhenStoreUnreachable ==
    (pc = "return" /\ args.store.status # "up") =>
        /\ IsTomato(args.crop) =>
               /\ Len(ret) = 1
               /\ ret[1].id = "default_tomato"
               /\ ret[1].spoilage_time_hours = 72
               /\ ret[1].severity = "high"
        /\ IsOnion(args.crop) =>
               /\ Len(ret) = 1
               /\ ret[1].id = "default_onion"
               /\ ret[1].spoilage_time_hours = 168
               /\ ret[1].severity = "medium"
        /\ (~IsTomato(args.crop) /\ ~IsOnion(args.crop)) => ret = << >>

\* the onion scenario: the store is unavailable and the onion default comes back
DefaultRulesWhenStoreUnreachableWitness ==
    /\ pc = "return"
    /\ args.store.status = "unavailable"
    /\ args.crop = "onion"
    /\ Len(ret) = 1
    /\ ret[1].id = "default_onion"
    /\ ret[1].source.type = "FALLBACK"

\* severity rank of the ordering: critical < high < medium < low
RankOf(severity) ==
    IF severity = "critical" THEN 1
    ELSE IF severity = "high" THEN 2
    ELSE IF severity = "medium" THEN 3
    ELSE 4

RankedSeverities == {"critical", "high", "medium", "low"}

\* C11: the list returned by query_spoilage_rules has at most 5 rules, the
\* severity rank (critical < high < medium < low) is non-decreasing along the
\* list, and among rules of equal severity spoilage_time_hours is
\* non-decreasing, for every rule store content and every reading.
RulesCappedAndOrdered ==
    pc = "return" =>
        /\ Len(ret) <= 5
        /\ \A i \in 1..Len(ret) : \A j \in i..Len(ret) :
              /\ ({ret[i].severity, ret[j].severity} \subseteq RankedSeverities)
                    => RankOf(ret[i].severity) <= RankOf(ret[j].severity)
              /\ (ret[i].severity = ret[j].severity)
                    => ret[i].spoilage_time_hours <= ret[j].spoilage_time_hours

\* more than five rules match, five come back, and two of them share a
\* severity and differ in their hours
RulesCappedAndOrderedWitness ==
    /\ pc = "return"
    /\ args.store.status = "up"
    /\ Len(args.store.rules) > 5
    /\ Len(ret) = 5
    /\ \E i \in 1..4 : /\ ret[i].severity = ret[i + 1].severity
                       /\ ret[i].spoilage_time_hours < ret[i + 1].spoilage_time_hours
    /\ ret[1].severity = "critical"
    /\ ret[5].severity # "critical"

\* the reading lies in both ranges of the rule, bounds included
Contains(rule, temperature, humidity) ==
    /\ rule.temp_range.min <= temperature /\ temperature <= rule.temp_range.max
    /\ rule.humidity_range.min <= humidity /\ humidity <= rule.humidity_range.max

\* C12 as stated: every rule in the result of query_spoilage_rules contains
\* the reading in its temp_range and humidity_range (bounds inclusive), for
\* every reading and every state of the rule store.
EveryRuleContainsReading ==
    pc = "return" =>
        \A k \in 1..Len(ret) : Contains(ret[k], args.temperature, args.humidity)

\* C12 amended: every rule in the result contains the reading (bounds
\* inclusive) whenever the rule store answers the query; when the store cannot
\* be reached the built-in default rule comes back whatever the reading, and it
\* contains the reading exactly when 0 <= temperature <= 50 and
\* 0 <= humidity <= 100.
EveryMatchedRuleContainsReading ==
    pc = "return" =>
        /\ args.store.status = "up" =>
              \A k \in 1..Len(ret) : Contains(ret[k], args.temperature, args.humidity)
        /\ args.store.status # "up" =>
              \A k \in 1..Len(ret) :
                  Contains(ret[k], args.temperature, args.humidity)
                      <=> (/\ 0 <= args.temperature /\ args.temperature <= 500
                           /\ 0 <= args.humidity /\ args.humidity <= 100)

\* a rule matched at the lower bound of its temperature range, while another
\* rule of the store is left out for its humidity range alone
EveryMatchedRuleContainsReadingWitness ==
    /\ pc = "return"
    /\ args.store.status = "up"
    /\ \E k \in 1..Len(ret) : ret[k].temp_range.min = args.temperature
    /\ \E n \in 1..Len(args.store.rules) :
          /\ args.store.rules[n].crop = Capitalize(args.crop)
          /\ args.store.rules[n].temp_min <= args.temperature
          /\ args.temperature <= args.store.rules[n].temp_max
          /\ args.humidity < args.store.rules[n].humidity_min

-----------------------------------------------------------------------------------------------------------------------------------------------------
(* Function-level specification: calculate_spoilage_timeline on rule lists  *)
(* of every length up to two and every spoilage time up to MaxSpoilageHours *)

MaxSpoilageHours == 340

TimelineRule(hours, severity) ==
    RuleOf(Node("Tomato", "tomato_rule", severity, hours, <<0, 500>>, <<0, 100>>, "p. 45"))

TimelineInputs ==
    {<< >>}
    \cup {<<TimelineRule(h, sev)>> : h \in 0..MaxSpoilageHours, sev \in RankedSeverities}
    \cup {<<TimelineRule(h, "high"), DefaultOnionRule>> : h \in 0..MaxSpoilageHours}

InitTimeline ==
    /\ pc = "call"
    /\ args \in [rules : TimelineInputs]
    /\ ret = None
    /\ PipeIdle
    /\ CacheIdle

CalculateSpoilageTimeline ==
    /\ pc = "call"
    /\ ret' = calculate_spoilage_timeline(args.rules)
    /\ pc' = "return"
    /\ UNCHANGED <<args, pipeVars, cacheVars>>

NextTimeline == CalculateSpoilageTimeline

SpecTimeline == InitTimeline /\ [][NextTimeline]_vars

\* "<n> <unit>", with the plural of the unit when n exceeds 1
Counted(n, unit) == ToString(n) \o " " \o unit \o (IF n > 1 THEN "s" ELSE "")

\* C13: calculate_spoilage_timeline returns hours null, display "Unknown" and
\* risk_level "unknown" for an empty rule list; otherwise hours and risk_level
\* are those of the first rule and, with h its spoilage_time_hours, the display
\* is "<h> hours" if h < 24, "<h div 24> day(s)" if 24 <= h < 168 and
\* "<h div 168> week(s)" if h >= 168, the plural used when the quotient
\* exceeds 1.
TimelineFromFirstRule ==
    pc = "return" =>
        IF args.rules = << >>
        THEN /\ ret.time_to_spoilage_hours = None
             /\ ret.time_to_spoilage_display = "Unknown"
             /\ ret.risk_level = "unknown"
        ELSE LET h == args.rules[1].spoilage_time_hours
             IN  /\ ret.time_to_spoilage_hours = Some(h)
                 /\ ret.risk_level = args.rules[1].severity
                 /\ h < 24 => ret.time_to_spoilage_display = ToString(h) \o " hours"
                 /\ (24 <= h /\ h < 168) =>
                        ret.time_to_spoilage_display = Counted(h \div 24, "day")
                 /\ h >= 168 => ret.time_to_spoilage_display = Counted(h \div 168, "week")

\* exactly one week: 168 hours are shown as "1 week", taken from the first of
\* two rules
TimelineFromFirstRuleWitness ==
    /\ pc = "return"
    /\ Len(args.rules) = 2
    /\ args.rules[1].spoilage_time_hours = 168
    /\ ret.time_to_spoilage_display = "1 week"
    /\ ret.risk_level = "high"

-----
(* MarketService.  Coordinates are in 1/10000 degree, distances in 1/100 km *)
(* (calculate_distances rounds to two decimals), prices per kg in 1/1000    *)
(* rupee; round(x, 2) brings a price difference to paise.                   *)

\* a rounding to whole rupees, in paise
Round0(thousandths) ==
    LET q == thousandths \div 1000
        r == thousandths % 1000
    IN  100 * (IF r > 500 \/ (r = 500 /\ q % 2 = 1) THEN q + 1 ELSE q)

\* round(x, 2): thousandths of a rupee to paise, halves to the even neighbour
Round2(thousandths) ==
    LET q == thousandths \div 10
        r == thousandths % 10
    IN  IF r > 5 \/ (r = 5 /\ q % 2 = 1) THEN q + 1 ELSE q

NagpurMandi == [latitude |-> 211458, longitude |-> 790882]

MumbaiApmc == [latitude |-> 190760, longitude |-> 728777]

PuneMarketYard == [latitude |-> 185204, longitude |-> 738567]

\* farms near Nagpur, near Nashik and near Pune
FarmerLocations ==
    {[latitude |-> 210000, longitude |-> 790000],
     [latitude |-> 200000, longitude |-> 737800],
     [latitude |-> 186000, longitude |-> 739000]}

\* MarketService.haversine_distance followed by round(distance, 2), evaluated
\* with R = 6371.0 for the farms and markets above
haversine_distance(lat1, lon1, lat2, lon2) ==
    LET from == <<lat1, lon1>>
        to == <<lat2, lon2>>
    IN  CASE from = <<210000, 790000>> /\ to = <<211458, 790882>> -> 1862
          [] from = <<210000, 790000>> /\ to = <<190760, 728777>> -> 67432
          [] from = <<210000, 790000>> /\ to = <<185204, 738567>> -> 60467
          [] from = <<200000, 737800>> /\ to = <<211458, 790882>> -> 56706
          [] from = <<200000, 737800>> /\ to = <<190760, 728777>> -> 13963
          [] from = <<200000, 737800>> /\ to = <<185204, 738567>> -> 16472
          [] from = <<186000, 739000>> /\ to = <<211458, 790882>> -> 61188
          [] from = <<186000, 739000>> /\ to = <<190760, 728777>> -> 11990
          [] from = <<186000, 739000>> /\ to = <<185204, 738567>> -> 996

\* MarketService.fetch_agmarknet_prices: the markets of a successful fetch
\* (last_updated, a timestamp, is left out)
AgmarknetMarkets(crop) ==
    << [name |-> "Nagpur Mandi", location |-> NagpurMandi,
        price_per_kg |-> IF crop = "tomato" THEN 25000 ELSE 30000, source |-> "Agmarknet"],
       [name |-> "Mumbai APMC", location |-> MumbaiApmc,
        price_per_kg |-> IF crop = "tomato" THEN 30000 ELSE 35000, source |-> "Agmarknet"],
       [name |-> "Pune Market Yard", location |-> PuneMarketYard,
        price_per_kg |-> IF crop = "tomato" THEN 28000 ELSE 32000, source |-> "Agmarknet"] >>

\* MarketService.fetch_aikosh_prices
AikoshMarkets(crop) ==
    << [name |-> "Nagpur Mandi", location |-> NagpurMandi,
        price_per_kg |-> IF crop = "tomato" THEN 23000 ELSE 28000, source |-> "AIKosh",
        warning |-> "Fallback data - may not reflect current prices"],
       [name |-> "Mumbai APMC", location |-> MumbaiApmc,
        price_per_kg |-> IF crop = "tomato" THEN 28000 ELSE 33000, source |-> "AIKosh",
        warning |-> "Fallback data - may not reflect current prices"] >>

\* dict with one more key
With(d, key, value) ==
    [k \in DOMAIN d \cup {key} |-> IF k = key THEN value ELSE d[k]]

\* MarketService.calculate_distances
calculate_distances(markets, farmer_location) ==
    [k \in 1..Len(markets) |->
        With(markets[k], "distance_km",
             haversine_distance(farmer_location.latitude, farmer_location.longitude,
                                markets[k].location.latitude,
                                markets[k].location.longitude))]

\* max(keys) and min(keys) as max(markets, key=...) and min(markets, key=...)
\* find them: the index of the first extreme key
RECURSIVE FirstMaxFrom(_, _, _)
FirstMaxFrom(keys, k, best) ==
    IF k > Len(keys) THEN best
    ELSE FirstMaxFrom(keys, k + 1, IF keys[k] > keys[best] THEN k ELSE best)

\* a selection that keeps the last listed market
LastListed(keys) == Len(keys)

FirstMax(keys) == FirstMaxFrom(keys, 2, 1)

RECURSIVE FirstMinFrom(_, _, _)
FirstMinFrom(keys, k, best) ==
    IF k > Len(keys) THEN best
    ELSE FirstMinFrom(keys, k + 1, IF keys[k] < keys[best] THEN k ELSE best)

FirstMin(keys) == FirstMinFrom(keys, 2, 1)

Prices(markets) == [k \in 1..Len(markets) |-> markets[k].price_per_kg]

Distances(markets) == [k \in 1..Len(markets) |-> markets[k].distance_km]

\* max(markets, key=lambda m: m['price_per_kg'])
HighestPrice(markets) == markets[FirstMax(Prices(markets))]

\* min(markets, key=lambda m: m['distance_km'])
Closest(markets) == markets[FirstMin(Distances(markets))]

\* MarketService.compare_prices
compare_prices(markets) ==
    IF markets = << >>
    THEN [best_market |-> None, price_difference |-> 0,
          reasoning |-> "No market data available"]
    ELSE LET best_market == HighestPrice(markets)
             local_market == Closest(markets)
         IN  [best_market |-> best_market,
              local_market |-> local_market,
              price_difference |-> Round2(best_market.price_per_kg - local_market.price_per_kg),
              reasoning |-> "Selling at best market gives more per kg than local market"]

\* a fallback that is not reported
MarketDataUnflagged(primary_ok, crop, farmer_location, use_fallback) ==
    LET markets == IF use_fallback \/ ~primary_ok
                   THEN AikoshMarkets(crop) ELSE AgmarknetMarkets(crop)
        markets_with_distance == calculate_distances(markets, farmer_location)
    IN  [crop |-> crop,
         markets |-> markets_with_distance,
         recommendation |-> compare_prices(markets_with_distance),
         fallback_used |-> FALSE]

\* MarketService.get_market_data.  primary_ok: fetch_agmarknet_prices returned;
\* otherwise it raised after its retries (last_updated is left out)
get_market_data(primary_ok, crop, farmer_location, use_fallback) ==
    LET fallback_used == use_fallback \/ ~primary_ok
        markets == IF fallback_used THEN AikoshMarkets(crop) ELSE AgmarknetMarkets(crop)
        markets_with_distance == calculate_distances(markets, farmer_location)
    IN  [crop |-> crop,
         markets |-> markets_with_distance,
         recommendation |-> compare_prices(markets_with_distance),
         fallback_used |-> fallback_used]

-----------------------------------------------------------------------------
(* EconomistAgent *)

\* EconomistAgent._select_highest_price_market
_select_highest_price_market(markets) == HighestPrice(markets)

\* a net price that adds the transport cost
NetPriceSignFlipped(markets, transport_cost_per_km) ==
    LET net_price == [k \in 1..Len(markets) |->
                         markets[k].price_per_kg * 10
                         + markets[k].distance_km * transport_cost_per_km]
    IN  markets[FirstMax(net_price)]

\* EconomistAgent._select_best_market_with_distance; the net price is kept
\* in 1/10000 rupee: price * 10 - distance (1/100 km) * cost (paise per km)
_select_best_market_with_distance(markets, transport_cost_per_km) ==
    LET net_price == [k \in 1..Len(markets) |->
                         markets[k].price_per_kg * 10
                         - markets[k].distance_km * transport_cost_per_km]
    IN  markets[FirstMax(net_price)]

\* EconomistAgent._generate_reasoning: which of its three texts
_generate_reasoning(best_market, local_market, price_diff, consider_distance) ==
    IF price_diff <= 0 THEN "local market offers the best price, no need to travel"
    ELSE IF best_market.name = local_market.name
    THEN "local market offers the best price"
    ELSE IF consider_distance
    THEN "selling at best market (distance) gives more per kg than local market"
    ELSE "selling at best market gives more per kg than local market"

\* EconomistAgent._assess_market_opportunity, price_diff in 1/1000 rupee
_assess_market_opportunity(price_diff) ==
    IF price_diff >= 10000 THEN "excellent"
    ELSE IF price_diff >= 5000 THEN "good"
    ELSE IF price_diff >= 2000 THEN "moderate"
    ELSE "low"

\* sorted(markets, key=price, reverse=True): stable, highest price first
RECURSIVE InsertByPrice(_, _)
InsertByPrice(sorted, market) ==
    IF sorted = << >> THEN <<market>>
    ELSE IF market.price_per_kg > Head(sorted).price_per_kg THEN <<market>> \o sorted
    ELSE <<Head(sorted)>> \o InsertByPrice(Tail(sorted), market)

RECURSIVE SortByPrice(_)
SortByPrice(markets) ==
    IF markets = << >> THEN << >>
    ELSE InsertByPrice(SortByPrice(SubSeq(markets, 1, Len(markets) - 1)),
                       markets[Len(markets)])

\* EconomistAgent._format_markets_for_display
_format_markets_for_display(markets) ==
    LET sorted_markets == SortByPrice(markets)
    IN  [k \in 1..Len(sorted_markets) |->
            [name |-> sorted_markets[k].name,
             price_per_kg |-> sorted_markets[k].price_per_kg,
             distance_km |-> sorted_markets[k].distance_km]]

\* the recommendation get_market_recommendation builds from a market list
RecommendationFor(crop, markets, fallback_used, consider_distance, transport_cost_per_km) ==
    IF markets = << >>
    THEN [crop |-> crop, best_market |-> None, markets |-> << >>,
          price_difference |-> 0, reasoning |-> "No market data available",
          fallback_used |-> fallback_used]
    ELSE LET best_market == IF consider_distance
                            THEN _select_best_market_with_distance(markets, transport_cost_per_km)
                            ELSE _select_highest_price_market(markets)
             local_market == Closest(markets)
             price_diff == best_market.price_per_kg - local_market.price_per_kg
         IN  [crop |-> crop,
              best_market |-> [name |-> best_market.name,
                               location |-> best_market.location,
                               price_per_kg |-> best_market.price_per_kg,
                               distance_km |-> best_market.distance_km],
              local_market |-> [name |-> local_market.name,
                                location |-> local_market.location,
                                price_per_kg |-> local_market.price_per_kg,
                                distance_km |-> local_market.distance_km],
              all_markets |-> _format_markets_for_display(markets),
              price_difference |-> Round2(price_diff),
              reasoning |-> _generate_reasoning(best_market, local_market, price_diff,
                                                consider_distance),
              market_opportunity |-> _assess_market_opportunity(price_diff),
              fallback_used |-> fallback_used,
              data_source |-> IF fallback_used THEN "AIKosh" ELSE "Agmarknet"]

\* EconomistAgent.get_market_recommendation (timestamp left out); no call in
\* its try block raises on the market lists of MarketService
get_market_recommendation(primary_ok, crop, farmer_location, consider_distance, transport_cost_per_km) ==
    LET market_data == get_market_data(primary_ok, crop, farmer_location, FALSE)
    IN  RecommendationFor(crop, market_data.markets, market_data.fallback_used,
                          consider_distance, transport_cost_per_km)

-----------------------------------------------------------------------------------------------------------------------------------------------------
(* Function-level specification: get_market_recommendation with the market  *)
(* service answering every list of up to MaxMarkets markets, under both     *)
(* selection strategies                                                     *)

MaxMarkets == 3

\* prices per kg in 1/1000 rupee and distances in 1/100 km of a listed market
ListedPrices == {10000, 11496, 19996, 20000}

ListedDistances == {500, 700, 60000}

ListedMarket(k, price, distance) ==
    [name |-> "Market " \o ToString(k), location |-> NagpurMandi,
     price_per_kg |-> price, source |-> "Agmarknet", distance_km |-> distance]

MarketLists ==
    UNION {{[k \in 1..n |-> ListedMarket(k, f[k][1], f[k][2])] :
               f \in [1..n -> ListedPrices \X ListedDistances]} : n \in 0..MaxMarkets}

\* transport cost in paise per km; price-only selection is called with the
\* default of 2 rupees
Strategies ==
    {[consider_distance |-> FALSE, transport_cost_per_km |-> 200]}
    \cup {[consider_distance |-> TRUE, transport_cost_per_km |-> c] : c \in {0 - 100, 0, 200}}

InitMarket ==
    /\ pc = "call"
    /\ \E markets \in MarketLists, strategy \in Strategies :
           args = [markets |-> markets,
                   consider_distance |-> strategy.consider_distance,
                   transport_cost_per_km |-> strategy.transport_cost_per_km]
    /\ ret = None
    /\ PipeIdle
    /\ CacheIdle

GetMarketRecommendation ==
    /\ pc = "call"
    /\ ret' = RecommendationFor("tomato", args.markets, FALSE, args.consider_distance,
                                args.transport_cost_per_km)
    /\ pc' = "return"
    /\ UNCHANGED <<args, pipeVars, cacheVars>>

NextMarket == GetMarketRecommendation

SpecMarket == InitMarket /\ [][NextMarket]_vars

Recommended == pc = "return" /\ args.markets # << >>

\* price_per_kg - distance_km * transport_cost_per_km, in 1/10000 rupee
Net(market) == market.price_per_kg * 10 - market.distance_km * args.transport_cost_per_km

Listed(market) ==
    \E k \in 1..Len(args.markets) :
        /\ args.markets[k].name = market.name
        /\ args.markets[k].price_per_kg = market.price_per_kg
        /\ args.markets[k].distance_km = market.distance_km

\* C14: for every non-empty market list, price-only selection returns a market
\* whose price_per_kg is >= that of every listed market, distance-adjusted
\* selection returns a market whose net price price_per_kg - distance_km *
\* transport_cost_per_km is >= that of every listed market, and the local
\* market is a market whose distance_km is <= that of every listed market.
SelectionIsArgmax ==
    Recommended =>
        /\ Listed(ret.best_market)
        /\ Listed(ret.local_market)
        /\ ~args.consider_distance =>
              \A k \in 1..Len(args.markets) :
                  ret.best_market.price_per_kg >= args.markets[k].price_per_kg
        /\ args.consider_distance =>
              \A k \in 1..Len(args.markets) : Net(ret.best_market) >= Net(args.markets[k])
        /\ \A k \in 1..Len(args.markets) :
              ret.local_market.distance_km <= args.markets[k].distance_km

\* transport costs change the choice: the nearest market is selected although
\* a farther market pays more
SelectionIsArgmaxWitness ==
    /\ Recommended
    /\ args.consider_distance
    /\ args.transport_cost_per_km > 0
    /\ Len(args.markets) = 3
    /\ ret.best_market.name = ret.local_market.name
    /\ \E k \in 1..3 : args.markets[k].price_per_kg > ret.best_market.price_per_kg

\* C15: for every non-empty market list and both selection strategies, the
\* reported price_difference equals best_market.price_per_kg -
\* local_market.price_per_kg to within 0.01; for an empty market list
\* best_market is null and price_difference is 0.
PriceDifferenceIsBestMinusLocal ==
    pc = "return" =>
        IF args.markets = << >>
        THEN ret.best_market = None /\ ret.price_difference = 0
        ELSE LET exact == ret.best_market.price_per_kg - ret.local_market.price_per_kg
                 reported == 10 * ret.price_difference
             IN  reported - exact <= 10 /\ exact - reported <= 10

\* a difference of 9.996 rupees reported as 10.00 under distance-adjusted
\* selection
PriceDifferenceIsBestMinusLocalWitness ==
    /\ Recommended
    /\ args.consider_distance
    /\ ret.best_market.price_per_kg - ret.local_market.price_per_kg = 9996
    /\ ret.price_difference = 1000

\* C16: for every non-empty market list, the price_difference of a market
\* recommendation is >= 0: under price-only selection always, and under
\* distance-adjusted selection whenever transport_cost_per_km >= 0.
PriceDifferenceNonNegative ==
    (Recommended /\ (~args.consider_distance \/ args.transport_cost_per_km >= 0)) =>
        ret.price_difference >= 0

\* distance-adjusted selection with a positive cost picks a market other than
\* the nearest one, which pays more; with a negative cost the difference can
\* be negative
PriceDifferenceNonNegativeWitness ==
    /\ Recommended
    /\ args.consider_distance
    /\ args.transport_cost_per_km > 0
    /\ ret.best_market.name # ret.local_market.name
    /\ ret.best_market.distance_km > ret.local_market.distance_km
    /\ ret.price_difference > 0

\* the tier of a price difference in paise
TierOf(paise) ==
    IF paise >= 10 * 100 THEN "excellent"
    ELSE IF paise >= 5 * 100 THEN "good"
    ELSE IF paise >= 2 * 100 THEN "moderate"
    ELSE "low"

\* C17: in every market recommendation with a best market, market_opportunity
\* is the tier of the reported price_difference: excellent iff >= 10, good iff
\* in [5, 10), moderate iff in [2, 5), low iff < 2.
OpportunityIsTierOfReportedDifference ==
    Recommended => ret.market_opportunity = TierOf(ret.price_difference)

-----------------------------------------------------------------------------
(* Function-level specification: MarketService.get_market_data and          *)
(* EconomistAgent.get_market_recommendation with the primary price source   *)
(* answering or failing                                                     *)

MarketCalls ==
    [op : {"get_market_data"}, primary_ok : BOOLEAN, crop : Crops,
     farmer_location : FarmerLocations, use_fallback : BOOLEAN]
    \cup [op : {"get_market_recommendation"}, primary_ok : BOOLEAN, crop : Crops,
          farmer_location : FarmerLocations, consider_distance : BOOLEAN]

InitMarketData ==
    /\ pc = "call"
    /\ args \in MarketCalls
    /\ ret = None
    /\ PipeIdle
    /\ CacheIdle

GetMarketData ==
    /\ pc = "call"
    /\ args.op = "get_market_data"
    /\ ret' = get_market_data(args.primary_ok, args.crop, args.farmer_location,
                              args.use_fallback)
    /\ pc' = "return"
    /\ UNCHANGED <<args, pipeVars, cacheVars>>

GetMarketRecommendationFromService ==
    /\ pc = "call"
    /\ args.op = "get_market_recommendation"
    /\ ret' = get_market_recommendation(args.primary_ok, args.crop, args.farmer_location,
                                        args.consider_distance, 200)
    /\ pc' = "return"
    /\ UNCHANGED <<args, pipeVars, cacheVars>>

NextMarketData == GetMarketData \/ GetMarketRecommendationFromService

SpecMarketData == InitMarketData /\ [][NextMarketData]_vars

\* the primary source was asked and answered
PrimarySucceeded ==
    IF args.op = "get_market_data" THEN ~args.use_fallback /\ args.primary_ok
    ELSE args.primary_ok

FallbackWarning == "Fallback data - may not reflect current prices"

\* C18: when the primary price source fails, get_market_data returns the
\* secondary source's markets with fallback_used = true, every returned market
\* has source "AIKosh" and a warning that mentions the fallback; fallback_used
\* is false exactly when the primary source succeeded, and the
\* recommendation's data_source is "AIKosh" iff fallback_used is true and
\* "Agmarknet" otherwise.
FallbackToSecondarySource ==
    pc = "return" =>
        /\ ret.fallback_used = ~PrimarySucceeded
        /\ (args.op = "get_market_data" /\ ~args.primary_ok) =>
              /\ ret.fallback_used = TRUE
              /\ Len(ret.markets) = Len(AikoshMarkets(args.crop))
              /\ \A k \in 1..Len(ret.markets) :
                    /\ ret.markets[k].name = AikoshMarkets(args.crop)[k].name
                    /\ ret.markets[k].price_per_kg = AikoshMarkets(args.crop)[k].price_per_kg
                    /\ ret.markets[k].source = "AIKosh"
                    /\ "warning" \in DOMAIN ret.markets[k]
                    /\ ret.markets[k].warning = FallbackWarning
        /\ (args.op = "get_market_data" /\ PrimarySucceeded) =>
              \A k \in 1..Len(ret.markets) : ret.markets[k].source = "Agmarknet"
        /\ args.op = "get_market_recommendation" =>
              ret.data_source = IF ret.fallback_used THEN "AIKosh" ELSE "Agmarknet"

\* the primary source fails on an onion request that did not ask for the
\* fallback, and the two secondary markets come back
FallbackToSecondarySourceWitness ==
    /\ pc = "return"
    /\ args.op = "get_market_data"
    /\ ~args.primary_ok
    /\ ~args.use_fallback
    /\ args.crop = "onion"
    /\ ret.fallback_used
    /\ Len(ret.markets) = 2
    /\ ret.markets[2].source = "AIKosh"

-----------------------------------------------------------------------------
(* MarketService.haversine_distance in IEEE double arithmetic.  A distance  *)
(* is kept exactly, as the integer distance * 2^43 split into two limbs     *)
(* [hi, lo] of value hi * Limb + lo (every distance below is 0 or at least  *)
(* 512 km, a multiple of 2^-43 km); a call whose sqrt(1 - a) has a negative *)
(* argument raises ValueError.  The table is the function evaluated with    *)
(* R = 6371.0 on the points of HaversinePoints, coordinates in 1/10000      *)
(* degree; the value in km is given beside each entry.                      *)

Limb == 2^28

HaversinePoints ==
    {[latitude |-> 80000, longitude |-> 680000],
     [latitude |-> 200000, longitude |-> 680000],
     [latitude |-> 320000, longitude |-> 680000],
     [latitude |-> 210000, longitude |-> 790000],
     [latitude |-> 0 - 80000, longitude |-> 0 - 1120000]}

HaversineDistance(lat1, lon1, lat2, lon2) ==
    LET from == <<lat1, lon1>>
        to == <<lat2, lon2>>
    IN  CASE from = <<80000, 680000>> /\ to = <<80000, 680000>> -> Ok([hi |-> 0, lo |-> 0])  \* 0.0
          [] from = <<80000, 680000>> /\ to = <<200000, 680000>> -> Ok([hi |-> 43723624, lo |-> 73945056])  \* 1334.3391197347046
          [] from = <<80000, 680000>> /\ to = <<320000, 680000>> -> Ok([hi |-> 87447248, lo |-> 147890116])  \* 2668.6782394694096
          [] from = <<80000, 680000>> /\ to = <<210000, 790000>> -> Ok([hi |-> 61166113, lo |-> 43357978])  \* 1866.6416370093095
          [] from = <<80000, 680000>> /\ to = <<(0 - 80000), (0 - 1120000)>> -> Raise("ValueError")  \* math domain error
          [] from = <<200000, 680000>> /\ to = <<80000, 680000>> -> Ok([hi |-> 43723624, lo |-> 73945056])  \* 1334.3391197347046
          [] from = <<200000, 680000>> /\ to = <<200000, 680000>> -> Ok([hi |-> 0, lo |-> 0])  \* 0.0
          [] from = <<200000, 680000>> /\ to = <<320000, 680000>> -> Ok([hi |-> 43723624, lo |-> 73945058])  \* 1334.3391197347048
          [] from = <<200000, 680000>> /\ to = <<210000, 790000>> -> Ok([hi |-> 37710479, lo |-> 92156774])  \* 1150.832499490684
          [] from = <<200000, 680000>> /\ to = <<(0 - 80000), (0 - 1120000)>> -> Ok([hi |-> 612130739, lo |-> 229924480])  \* 18680.74767628587
          [] from = <<320000, 680000>> /\ to = <<80000, 680000>> -> Ok([hi |-> 87447248, lo |-> 147890116])  \* 2668.6782394694096
          [] from = <<320000, 680000>> /\ to = <<200000, 680000>> -> Ok([hi |-> 43723624, lo |-> 73945058])  \* 1334.3391197347048
          [] from = <<320000, 680000>> /\ to = <<320000, 680000>> -> Ok([hi |-> 0, lo |-> 0])  \* 0.0
          [] from = <<320000, 680000>> /\ to = <<210000, 790000>> -> Ok([hi |-> 53714834, lo |-> 227980742])  \* 1639.2466689848159
          [] from = <<320000, 680000>> /\ to = <<(0 - 80000), (0 - 1120000)>> -> Ok([hi |-> 568407115, lo |-> 155979392])  \* 17346.408556551163
          [] from = <<210000, 790000>> /\ to = <<80000, 680000>> -> Ok([hi |-> 61166113, lo |-> 43357978])  \* 1866.6416370093095
          [] from = <<210000, 790000>> /\ to = <<200000, 680000>> -> Ok([hi |-> 37710479, lo |-> 92156774])  \* 1150.832499490684
          [] from = <<210000, 790000>> /\ to = <<320000, 680000>> -> Ok([hi |-> 53714834, lo |-> 227980742])  \* 1639.2466689848159
          [] from = <<210000, 790000>> /\ to = <<210000, 790000>> -> Ok([hi |-> 0, lo |-> 0])  \* 0.0
          [] from = <<210000, 790000>> /\ to = <<(0 - 80000), (0 - 1120000)>> -> Ok([hi |-> 594688250, lo |-> 260511584])  \* 18148.44515901127
          [] from = <<(0 - 80000), (0 - 1120000)>> /\ to = <<80000, 680000>> -> Raise("ValueError")  \* math domain error
          [] from = <<(0 - 80000), (0 - 1120000)>> /\ to = <<200000, 680000>> -> Ok([hi |-> 612130739, lo |-> 229924480])  \* 18680.74767628587
          [] from = <<(0 - 80000), (0 - 1120000)>> /\ to = <<320000, 680000>> -> Ok([hi |-> 568407115, lo |-> 155979392])  \* 17346.408556551163
          [] from = <<(0 - 80000), (0 - 1120000)>> /\ to = <<210000, 790000>> -> Ok([hi |-> 594688250, lo |-> 260511584])  \* 18148.44515901127
          [] from = <<(0 - 80000), (0 - 1120000)>> /\ to = <<(0 - 80000), (0 - 1120000)>> -> Ok([hi |-> 0, lo |-> 0])  \* 0.0

\* x + y and x <= y on exact distances
Plus(x, y) ==
    [hi |-> x.hi + y.hi + (x.lo + y.lo) \div Limb, lo |-> (x.lo + y.lo) % Limb]

Leq(x, y) == x.hi < y.hi \/ (x.hi = y.hi /\ x.lo <= y.lo)

\* 0.01 km
Hundredth == [hi |-> 327, lo |-> 182536110]

InitHaversine ==
    /\ pc = "call"
    /\ args \in [a : HaversinePoints, b : HaversinePoints, c : HaversinePoints]
    /\ ret = None
    /\ PipeIdle
    /\ CacheIdle

\* the distances between three points, and of the first point to itself
HaversineDistances ==
    /\ pc = "call"
    /\ ret' = [ab |-> HaversineDistance(args.a.latitude, args.a.longitude,
                                        args.b.latitude, args.b.longitude),
               ba |-> HaversineDistance(args.b.latitude, args.b.longitude,
                                        args.a.latitude, args.a.longitude),
               bc |-> HaversineDistance(args.b.latitude, args.b.longitude,
                                        args.c.latitude, args.c.longitude),
               ac |-> HaversineDistance(args.a.latitude, args.a.longitude,
                                        args.c.latitude, args.c.longitude),
               aa |-> HaversineDistance(args.a.latitude, args.a.longitude,
                                        args.a.latitude, args.a.longitude)]
    /\ pc' = "return"
    /\ UNCHANGED <<args, pipeVars, cacheVars>>

NextHaversine == HaversineDistances

SpecHaversine == InitHaversine /\ [][NextHaversine]_vars

\* C26: haversine_distance is non-negative, symmetric (d(A,B) = d(B,A) within
\* 0.01 km), approximately 0 (< 0.01 km) for identical coordinates, and
\* satisfies the triangle inequality d(A,C) <= d(A,B) + d(B,C) for any three
\* points.
HaversineIsAMetric ==
    pc = "return" =>
        /\ \A call \in DOMAIN ret : ret[call].ok
        /\ \A call \in DOMAIN ret : Leq([hi |-> 0, lo |-> 0], ret[call].value)
        /\ Leq(ret.ab.value, Plus(ret.ba.value, Hundredth))
        /\ Leq(ret.ba.value, Plus(ret.ab.value, Hundredth))
        /\ Leq(ret.aa.value, Hundredth) /\ ret.aa.value # Hundredth
        /\ Leq(ret.ac.value, Plus(ret.ab.value, ret.bc.value))

-----
(* GeospatialAgent.  Times are in hours; a row of satellite_cache keeps     *)
(* ndvi, soil_moisture, rainfall_mm (None for a NULL column) and created_at *)
(* (data_sources is left out).                                              *)

CacheTtlDays == 7

\* timedelta.days of now - created_at
AgeDays(created_at, now) == (now - created_at) \div 24

\* an expiry that starts only after the seventh day
ExpiredAfterTtl(cached_data, now) ==
    IF ~Truthy(cached_data) \/ "created_at" \notin DOMAIN cached_data THEN TRUE
    ELSE AgeDays(cached_data.created_at, now) > CacheTtlDays

\* GeospatialAgent.is_cache_expired
is_cache_expired(cached_data, now) ==
    IF ~Truthy(cached_data) \/ "created_at" \notin DOMAIN cached_data THEN TRUE
    ELSE AgeDays(cached_data.created_at, now) >= CacheTtlDays

\* a lookup that returns the row whatever its age
CachedWhateverAge(cache, now) ==
    IF cache.status # "up" THEN None
    ELSE IF Len(cache.rows) > 0 THEN cache.rows[1]
    ELSE None

\* GeospatialAgent.get_cached_data.  cache.rows: the rows the query returns
\* for (latitude, longitude, date); cache.status "error": execute() raises
get_cached_data(cache, now) ==
    IF cache.status # "up" THEN None
    ELSE IF Len(cache.rows) > 0
    THEN IF is_cache_expired(cache.rows[1], now) THEN None ELSE cache.rows[1]
    ELSE None

\* float(x) of a column value
Float(column) == IF column = None THEN Raise("TypeError") ELSE Ok(column)

\* GeospatialAgent.get_geospatial_data
get_geospatial_data(cache, now) ==
    LET cached_data == get_cached_data(cache, now)
    IN  IF Truthy(cached_data)
        THEN IF ~HasKeys(cached_data, {"ndvi", "soil_moisture", "rainfall_mm"})
             THEN Raise("KeyError")
             ELSE IF \E c \in {"ndvi", "soil_moisture", "rainfall_mm"} :
                        ~Float(cached_data[c]).ok
             THEN Raise("TypeError")
             ELSE Ok([ndvi |-> cached_data.ndvi,
                      soil_moisture |-> cached_data.soil_moisture,
                      rainfall_mm |-> cached_data.rainfall_mm,
                      cached |-> TRUE,
                      cache_age_days |-> AgeDays(cached_data.created_at, now)])
        ELSE Ok([ndvi |-> None, soil_moisture |-> None, rainfall_mm |-> None,
                 cached |-> FALSE, message |-> "Data fetch in progress"])

-----------------------------------------------------------------------------
(* Function-level specification: is_cache_expired on entries created up to  *)
(* MaxEntryAgeHours hours before now or up to a day after it, and on        *)
(* entries without created_at                                                *)

MaxEntryAgeHours == 200

ExpiryEntries ==
    {[created_at |-> t, latitude |-> 211458, longitude |-> 790882] :
         t \in 0..(MaxEntryAgeHours + 24)}
    \cup {[latitude |-> 211458, longitude |-> 790882], None}

InitExpiry ==
    /\ pc = "call"
    /\ args \in [cached_data : ExpiryEntries, now : {MaxEntryAgeHours}]
    /\ ret = None
    /\ PipeIdle
    /\ CacheIdle

IsCacheExpired ==
    /\ pc = "call"
    /\ ret' = [expired |-> is_cache_expired(args.cached_data, args.now)]
    /\ pc' = "return"
    /\ UNCHANGED <<args, pipeVars, cacheVars>>

NextExpiry == IsCacheExpired

SpecExpiry == InitExpiry /\ [][NextExpiry]_vars

\* the age of the entry of the call, in hours; timedelta.days is the floor
\* of the age in days
AgeHours == args.now - args.cached_data.created_at

HasCreatedAt == Truthy(args.cached_data) /\ "created_at" \in DOMAIN args.cached_data

-----------------------------------------------------------------------------
(* The satellite_cache table behind GeospatialAgent.  A row is              *)
(*   [latitude, longitude, date, ndvi, soil_moisture, rainfall_mm,          *)
(*    created_at, expires_at]                                               *)
(* with date a day number (datetime.date()), created_at and expires_at in   *)
(* hours, and data_sources left out.  The table is unique on (latitude,     *)
(* longitude, date), the conflict target of the upsert.                     *)

\* datetime.date() of an instant in hours
DateOf(instant) == instant \div 24

SameKey(row, latitude, longitude, date) ==
    row.latitude = latitude /\ row.longitude = longitude /\ row.date = date

\* table('satellite_cache').select('*').eq(latitude).eq(longitude).eq(date)
Select(table, latitude, longitude, date) ==
    LET found == {row \in table : SameKey(row, latitude, longitude, date)}
    IN  IF found = {} THEN << >> ELSE <<CHOOSE row \in found : TRUE>>

\* table('satellite_cache').upsert(cache_data, on_conflict='latitude,longitude,date')
Upsert(table, cache_data) ==
    {row \in table : ~SameKey(row, cache_data.latitude, cache_data.longitude, cache_data.date)}
    \cup {cache_data}

\* GeospatialAgent.update_cache.  first_reading and second_reading are the
\* two values of datetime.now(timezone.utc), lines 134 and 144; status
\* "error": execute() raises.  The result is the table afterwards and the
\* value returned.
update_cache(table, status, latitude, longitude, date, ndvi, soil_moisture, rainfall_mm, first_reading, second_reading) ==
    LET expires_at == first_reading + 24 * CacheTtlDays
        cache_data == [latitude |-> latitude, longitude |-> longitude,
                       date |-> DateOf(date),
                       ndvi |-> Some(ndvi), soil_moisture |-> Some(soil_moisture),
                       rainfall_mm |-> Some(rainfall_mm),
                       created_at |-> second_reading,
                       expires_at |-> expires_at]
    IN  IF status # "up" THEN [table |-> table, value |-> FALSE]
        ELSE [table |-> Upsert(table, cache_data), value |-> TRUE]

-----------------------------------------------------------------------------
(* Specification of the cache: updates during the first MaxWriteDays days,  *)
(* lookups, and the passing of MaxClockDays days, over a table of up to     *)
(* MaxRows rows.  args is the call under way with the clock reading it saw, *)
(* ret its result.                                                          *)

MaxClockDays == 8

MaxWriteDays == 2

MaxRows == 2

CacheLocations == {NagpurMandi, PuneMarketYard}

NdviReadings == {50, 75}

InitCache ==
    /\ pc = "ready"
    /\ args = None
    /\ ret = None
    /\ satellite_cache = {}
    /\ clock = 0
    /\ PipeIdle

\* a day passes
Tick ==
    /\ pc = "ready"
    /\ clock + 24 <= 24 * MaxClockDays
    /\ clock' = clock + 24
    /\ UNCHANGED <<pc, args, ret, satellite_cache, pipeVars>>

\* update_cache for today's reading (fetch_satellite_data passes
\* date=datetime.now(), taken on a UTC host) or for a reading dated
\* CacheTtlDays ahead; elapsed: the hours between the two clock readings of
\* the call, the second of which is the clock
UpdateCache ==
    /\ pc = "ready"
    /\ clock < 24 * MaxWriteDays
    /\ pc' = "return"
    /\ \E location \in CacheLocations, ahead \in {0, CacheTtlDays}, ndvi \in NdviReadings, status \in {"up", "error"}, elapsed \in {0, 1} :
           LET date == clock + 24 * ahead
               result == update_cache(satellite_cache, status, location.latitude,
                             location.longitude, date, ndvi, 40, 12,
                             clock - elapsed, clock)
           IN  /\ clock - elapsed >= 0
               /\ Cardinality(result.table) <= MaxRows
               /\ satellite_cache' = result.table
               /\ args' = [op |-> "update_cache", latitude |-> location.latitude,
                           longitude |-> location.longitude, date |-> DateOf(date),
                           ndvi |-> ndvi, status |-> status, now |-> clock]
               /\ ret' = [value |-> result.value]
    /\ UNCHANGED <<clock, pipeVars>>

\* get_cached_data(latitude, longitude, date); date None: today
GetCachedData ==
    /\ pc = "ready"
    /\ \E location \in CacheLocations, date \in {None} \cup {Some(d) : d \in {0, CacheTtlDays}}, status \in {"up", "error"} :
           LET day == IF date = None THEN DateOf(clock) ELSE Val(date)
               cache == IF status = "up"
                        THEN [status |-> "up",
                              rows |-> Select(satellite_cache, location.latitude,
                                              location.longitude, day)]
                        ELSE [status |-> "error"]
           IN  /\ args' = [op |-> "get_cached_data", latitude |-> location.latitude,
                           longitude |-> location.longitude, date |-> day,
                           status |-> status, now |-> clock]
               /\ ret' = [value |-> get_cached_data(cache, clock)]
    /\ pc' = "return"
    /\ UNCHANGED <<cacheVars, pipeVars>>

\* get_geospatial_data(latitude, longitude): get_cached_data without a date
LookUpGeospatialData ==
    /\ pc = "ready"
    /\ \E location \in CacheLocations, status \in {"up", "error"} :
           LET cache == IF status = "up"
                        THEN [status |-> "up",
                              rows |-> Select(satellite_cache, location.latitude,
                                              location.longitude, DateOf(clock))]
                        ELSE [status |-> "error"]
           IN  /\ args' = [op |-> "get_geospatial_data", latitude |-> location.latitude,
                           longitude |-> location.longitude,
                           status |-> status, now |-> clock]
               /\ ret' = get_geospatial_data(cache, clock)
    /\ pc' = "return"
    /\ UNCHANGED <<cacheVars, pipeVars>>

\* the caller takes the result
Continue ==
    /\ pc = "return"
    /\ pc' = "ready"
    /\ args' = None
    /\ ret' = None
    /\ UNCHANGED <<cacheVars, pipeVars>>

NextCache ==
    \/ Tick
    \/ UpdateCache
    \/ GetCachedData
    \/ LookUpGeospatialData
    \/ Continue

SpecCache == InitCache /\ [][NextCache]_vars

Called(op) == pc = "return" /\ args.op = op

\* the rows stored for the location and date of the call
StoredForCall ==
    {row \in satellite_cache : /\ row.latitude = args.latitude
                               /\ row.longitude = args.longitude
                               /\ row.date = args.date}

\* younger than seven days at the time of the call
YoungerThanTtl(row) == args.now - row.created_at < 7 * 24

\* C22: get_cached_data(lat, lon, date) returns the stored row only when a row
\* for exactly that (lat, lon, date) exists and is not expired; it returns the
\* same miss value (None) when no row exists, when the row exists but is
\* expired, and when the store query fails.
CachedRowOnlyWhenStoredAndFresh ==
    Called("get_cached_data") =>
        LET fresh == {row \in StoredForCall : YoungerThanTtl(row)}
        IN  IF args.status = "up" /\ fresh # {}
            THEN ret.value \in fresh
            ELSE ret.value = None

\* a stored row that has expired is answered like a missing one
CachedRowOnlyWhenStoredAndFreshWitness ==
    /\ Called("get_cached_data")
    /\ args.status = "up"
    /\ \E row \in StoredForCall : ~YoungerThanTtl(row)
    /\ ret.value = None

\* C23: update_cache is an upsert on (latitude, longitude, date): the store
\* holds at most one entry per key, that entry carries the values of the last
\* update for the key, and every stored entry satisfies
\* expires_at = created_at + 7 days.
UpsertKeepsLastWriteAndSevenDayExpiry ==
    /\ \A row \in satellite_cache, other \in satellite_cache :
           SameKey(row, other.latitude, other.longitude, other.date) => row = other
    /\ (Called("update_cache") /\ ret.value = TRUE) =>
           \E row \in StoredForCall :
               row.ndvi = Some(args.ndvi) /\ row.created_at = args.now
    /\ \A row \in satellite_cache : row.expires_at = row.created_at + 7 * 24

\* a reading of today stored for the location of the call, and no other row
\* for that location
OnlyEntryOfLocation(row) ==
    /\ row.latitude = args.latitude
    /\ row.longitude = args.longitude
    /\ row.date = DateOf(row.created_at)
    /\ \A other \in satellite_cache :
           (other.latitude = args.latitude /\ other.longitude = args.longitude)
               => other = row

\* C30: a cache entry written by update_cache at time t for a location is
\* returned as a hit (cached = true) by get_geospatial_data for the same
\* location at every later time t' with t' - t < 7 days, provided no other
\* write for that location happened in between; only from age 7 days on does
\* the lookup report a miss.
EntryIsHitUntilSevenDaysOld ==
    (Called("get_geospatial_data") /\ args.status = "up") =>
        \A row \in satellite_cache :
            OnlyEntryOfLocation(row) =>
                (ret.value.cached = YoungerThanTtl(row))

-----------------------------------------------------------------------------
(* SupervisorAgent: the four branch wrappers.  A wrapper's result is kept   *)
(* as an outcome, Ok(payload) or Raise(kind), so that an exception leaving  *)
(* it would reach generate_recommendation.                                  *)

\* the geospatial wrapper without its try/except
GeospatialUnguarded(outcome) == outcome

\* SupervisorAgent._get_geospatial_data; outcome: of get_geospatial_data
_get_geospatial_data(outcome) ==
    IF outcome.ok THEN outcome
    ELSE Ok([error |-> outcome.exception, cached |-> FALSE])

DefaultConditions == [temperature |-> 250, humidity |-> 70]

\* current conditions read from a day in the weather service's output format
ConditionsOfParsedDay(weather) ==
    IF Len(Get(weather, "forecast", << >>)) > 0
    THEN LET first_day == weather.forecast[1]
         IN  Ok(With(weather, "current_conditions",
                     [temperature |-> (first_day.temperature.max
                                       + first_day.temperature.min) \div 2,
                      humidity |-> first_day.humidity]))
    ELSE Ok(With(weather, "current_conditions", DefaultConditions))

\* lines 88-96 of _get_weather_data: the forecast's first day is read with the
\* keys temp_max, temp_min and humidity
WithCurrentConditions(weather) ==
    IF Len(Get(weather, "forecast", << >>)) > 0
    THEN LET first_day == weather.forecast[1]
         IN  IF ~HasKeys(first_day, {"temp_max", "temp_min", "humidity"})
             THEN Raise("KeyError")
             ELSE Ok(With(weather, "current_conditions",
                          [temperature |-> (first_day.temp_max + first_day.temp_min) \div 2,
                           humidity |-> first_day.humidity]))
    ELSE Ok(With(weather, "current_conditions", DefaultConditions))

\* the weather wrapper without its try/except
WeatherUnguarded(outcome) ==
    IF outcome.ok THEN WithCurrentConditions(outcome.value) ELSE outcome

\* SupervisorAgent._get_weather_data; outcome: of get_weather_forecast
_get_weather_data(outcome) ==
    LET result == IF outcome.ok THEN WithCurrentConditions(outcome.value) ELSE outcome
    IN  IF result.ok THEN result
        ELSE Ok([error |-> result.exception, forecast |-> << >>,
                 risk_assessment |-> NoStormRisk,
                 current_conditions |-> DefaultConditions])

\* SupervisorAgent._get_agronomist_data; fault: an exception escapes
\* assess_spoilage_risk
_get_agronomist_data(store, fault, crop, current_conditions) ==
    LET temperature == Get(current_conditions, "temperature", 250)
        humidity == Get(current_conditions, "humidity", 70)
    IN  IF fault THEN Ok([error |-> "Exception", matched_rules |-> << >>])
        ELSE Ok(assess_spoilage_risk(store, crop, temperature, humidity))

\* SupervisorAgent._get_economist_data; fault: an exception escapes
\* get_market_recommendation
_get_economist_data(primary_ok, fault, crop, farmer_location) ==
    IF fault THEN Ok([error |-> "Exception", best_market |-> None])
    ELSE Ok(get_market_recommendation(primary_ok, crop, farmer_location, FALSE, 200))

-----------------------------------------------------------------------------
(* SupervisorAgent: synthesis.  A message is kept as the template chosen    *)
(* and the values formatted into it.                                        *)

\* a readiness test that includes the threshold
ReadinessInclusive(geo_data) ==
    LET ndvi == Get(geo_data, "ndvi", None)
    IN  IF ndvi = None THEN TRUE ELSE Val(ndvi) >= 60

\* SupervisorAgent._assess_crop_readiness, ndvi in hundredths
_assess_crop_readiness(geo_data) ==
    LET ndvi == Get(geo_data, "ndvi", None)
    IN  IF ndvi = None THEN TRUE ELSE Val(ndvi) > 60

\* economist_data.get('best_market', {}).get('name', default): a best_market
\* stored as None has no get
BestMarketName(econ_data, default) ==
    IF "best_market" \notin DOMAIN econ_data THEN Ok(default)
    ELSE IF econ_data.best_market = None THEN Raise("AttributeError")
    ELSE Ok(Get(econ_data.best_market, "name", default))

\* SupervisorAgent._generate_hindi_message
_generate_hindi_message(action, urgency, primary_factor, crop, wx_data, agro_data, econ_data) ==
    LET crop_hindi == IF crop = "tomato" THEN "tamatar" ELSE "pyaz"
        best_market == BestMarketName(econ_data, "bazaar")
    IN  IF action = "harvest_now"
        THEN Ok([language |-> "hi", crop |-> crop_hindi,
                 template |-> IF primary_factor = "storm_risk" THEN "harvest_storm"
                              ELSE IF primary_factor = "spoilage_risk" THEN "harvest_spoilage"
                              ELSE "harvest"])
        ELSE IF action = "sell_now"
        THEN IF ~best_market.ok THEN best_market
             ELSE Ok([language |-> "hi", template |-> "sell",
                      best_market |-> best_market.value,
                      price_diff |-> Get(econ_data, "price_difference", 0)])
        ELSE Ok([language |-> "hi", crop |-> crop_hindi, template |-> "wait"])

\* SupervisorAgent._generate_primary_message
_generate_primary_message(action, urgency, primary_factor, crop, wx_data, agro_data, econ_data, language) ==
    LET best_market == BestMarketName(econ_data, "nearby market")
    IN  IF language = "hi"
        THEN _generate_hindi_message(action, urgency, primary_factor, crop,
                                     wx_data, agro_data, econ_data)
        ELSE IF action = "harvest_now"
        THEN IF primary_factor = "storm_risk"
             THEN Ok([language |-> "en", crop |-> crop, template |-> "harvest_storm",
                      risk_window |-> Get(Get(wx_data, "risk_assessment", << >>),
                                          "risk_window", Some("soon"))])
             ELSE IF primary_factor = "spoilage_risk"
             THEN Ok([language |-> "en", crop |-> crop, template |-> "harvest_spoilage",
                      time_to_spoilage |-> Get(Get(agro_data, "spoilage_timeline", << >>),
                                               "time_to_spoilage_display", "soon")])
             ELSE Ok([language |-> "en", crop |-> crop, template |-> "harvest"])
        ELSE IF action = "sell_now"
        THEN IF ~best_market.ok THEN best_market
             ELSE Ok([language |-> "en", template |-> "sell",
                      best_market |-> best_market.value,
                      price_diff |-> Get(econ_data, "price_difference", 0)])
        ELSE IF primary_factor = "optimal_timing"
        THEN Ok([language |-> "en", crop |-> crop, template |-> "wait"])
        ELSE Ok([language |-> "en", template |-> "monitor"])

\* SupervisorAgent._generate_hindi_reasoning: the reasons joined
_generate_hindi_reasoning(action, primary_factor, crop_ready, storm_risk, spoilage_risk, market_opportunity) ==
    IF primary_factor = "storm_risk"
    THEN <<"rain forecast (hi)">> \o (IF crop_ready THEN <<"crop ready (hi)">> ELSE << >>)
    ELSE IF primary_factor = "spoilage_risk"
    THEN <<"spoilage risk " \o spoilage_risk \o " (hi)">>
    ELSE IF primary_factor = "market_opportunity" THEN <<"good price (hi)">>
    ELSE << >>

\* SupervisorAgent._generate_reasoning_summary: the reasons joined
_generate_reasoning_summary(action, primary_factor, crop_ready, storm_risk, spoilage_risk, market_opportunity, language) ==
    IF language = "hi"
    THEN _generate_hindi_reasoning(action, primary_factor, crop_ready, storm_risk,
                                   spoilage_risk, market_opportunity)
    ELSE IF primary_factor = "storm_risk"
    THEN <<"Heavy rain forecast within 48 hours">>
         \o (IF crop_ready THEN <<"Crop is ready for harvest">> ELSE << >>)
    ELSE IF primary_factor = "spoilage_risk"
    THEN <<"Spoilage risk is " \o spoilage_risk,
           "Current conditions accelerate deterioration">>
    ELSE IF primary_factor = "market_opportunity"
    THEN <<"Market opportunity is " \o market_opportunity>>
         \o (IF crop_ready THEN <<"Crop is ready for sale">> ELSE << >>)
    ELSE IF primary_factor = "optimal_timing"
    THEN <<"No immediate threats detected">>
         \o (IF ~crop_ready THEN <<"Crop needs more time to mature">> ELSE << >>)
    ELSE << >>

\* SupervisorAgent._synthesize_recommendation
_synthesize_recommendation(geo_data, wx_data, agro_data, econ_data, crop, language) ==
    LET crop_ready == _assess_crop_readiness(geo_data)
        storm_risk == Get(Get(wx_data, "risk_assessment", << >>), "has_storm_risk", FALSE)
        spoilage_risk == Get(Get(agro_data, "spoilage_timeline", << >>),
                             "risk_level", "unknown")
        market_opportunity == Get(econ_data, "market_opportunity", "low")
        price_difference == Get(econ_data, "price_difference", 0)
        decision == _determine_action_and_urgency(crop_ready, storm_risk, spoilage_risk,
                                                  market_opportunity, price_difference)
        primary_message == _generate_primary_message(decision[1], decision[2], decision[3],
                                                     crop, wx_data, agro_data, econ_data,
                                                     language)
    IN  IF ~primary_message.ok THEN primary_message
        ELSE Ok([action |-> decision[1], urgency |-> decision[2],
                 primary_message |-> primary_message.value,
                 reasoning |-> _generate_reasoning_summary(decision[1], decision[3],
                                   crop_ready, storm_risk, spoilage_risk,
                                   market_opportunity, language),
                 primary_factor |-> decision[3], crop_ready |-> crop_ready,
                 indicators |-> [storm_risk |-> storm_risk,
                                 spoilage_risk |-> spoilage_risk,
                                 market_opportunity |-> market_opportunity,
                                 price_difference |-> price_difference]])

\* a line of the reasoning chain: what it is about and which text was chosen
Line(topic, text) == [topic |-> topic, text |-> text]

\* SupervisorAgent._generate_hindi_reasoning_chain
_generate_hindi_reasoning_chain(rec, geo_data, wx_data, agro_data, econ_data) ==
    LET risk_assessment == Get(wx_data, "risk_assessment", << >>)
        risk_level == Get(Get(agro_data, "spoilage_timeline", << >>), "risk_level", "unknown")
        best_market == Get(econ_data, "best_market", None)
    IN  << Line("weather", IF Get(risk_assessment, "has_storm_risk", FALSE)
                           THEN "storm warning" ELSE "no storm threat") >>
        \o << Line("crop_health", IF Get(rec, "crop_ready", FALSE)
                                  THEN "ready" ELSE "needs more time") >>
        \o (IF risk_level # "unknown" THEN <<Line("spoilage", risk_level)>> ELSE << >>)
        \o (IF Truthy(best_market)
            THEN <<Line("market", IF Get(econ_data, "price_difference", 0) > 0
                                  THEN "opportunity" ELSE "local market best")>>
            ELSE << >>)
        \o << Line("recommendation", IF rec.action = "harvest_now" THEN "harvest immediately"
                                     ELSE IF rec.action = "sell_now" THEN "sell"
                                     ELSE "wait and monitor") >>

\* SupervisorAgent._generate_reasoning_chain
_generate_reasoning_chain(rec, geo_data, wx_data, agro_data, econ_data, language) ==
    LET risk_assessment == Get(wx_data, "risk_assessment", << >>)
        risk_level == Get(Get(agro_data, "spoilage_timeline", << >>), "risk_level", "unknown")
        best_market == Get(econ_data, "best_market", None)
    IN  IF language = "hi"
        THEN _generate_hindi_reasoning_chain(rec, geo_data, wx_data, agro_data, econ_data)
        ELSE << Line("weather", IF Get(risk_assessment, "has_storm_risk", FALSE)
                                THEN "Weather Alert" ELSE "No immediate storm threats"),
                Line("crop_health", IF Get(geo_data, "ndvi", None) # None
                                    THEN (IF Get(rec, "crop_ready", FALSE)
                                          THEN "healthy vegetation ready for harvest"
                                          ELSE "crop needs more time")
                                    ELSE "Satellite data unavailable"),
                Line("spoilage", IF risk_level # "unknown" THEN risk_level
                                 ELSE "Unable to assess"),
                Line("market", IF Truthy(best_market)
                               THEN (IF Get(econ_data, "price_difference", 0) > 0
                                     THEN "Market Opportunity"
                                     ELSE "local market offers the best price")
                               ELSE "Market data unavailable"),
                Line("recommendation", IF rec.action = "harvest_now" THEN "harvest immediately"
                                       ELSE IF rec.action = "sell_now"
                                       THEN "sell at the recommended market"
                                       ELSE "wait and monitor conditions") >>

-----------------------------------------------------------------------------------------------------------------------------------------------------
(* Function-level specification: _assess_crop_readiness on geospatial       *)
(* payloads with every ndvi from -1.00 to 1.00, with a null ndvi and        *)
(* without the key                                                          *)

ReadinessInputs ==
    {[ndvi |-> Some(v), cached |-> TRUE, cache_age_days |-> 1] : v \in (0 - 100)..100}
    \cup {[ndvi |-> None, cached |-> FALSE, message |-> "Data fetch in progress"],
          [error |-> "Service unavailable", cached |-> FALSE]}

InitReadiness ==
    /\ pc = "call"
    /\ args \in [geospatial_data : ReadinessInputs]
    /\ ret = None
    /\ PipeIdle
    /\ CacheIdle

AssessCropReadiness ==
    /\ pc = "call"
    /\ ret' = [crop_ready |-> _assess_crop_readiness(args.geospatial_data)]
    /\ pc' = "return"
    /\ UNCHANGED <<args, pipeVars, cacheVars>>

NextReadiness == AssessCropReadiness

SpecReadiness == InitReadiness /\ [][NextReadiness]_vars

NdviMissing ==
    "ndvi" \notin DOMAIN args.geospatial_data \/ args.geospatial_data.ndvi = None

\* C19: _assess_crop_readiness returns true when ndvi is missing (null), and
\* otherwise returns true iff ndvi > 0.6 (strictly): ndvi = 0.6 and ndvi = 0.5
\* give false, ndvi = 0.75 gives true.
ReadyIffNdviAboveThreshold ==
    pc = "return" =>
        /\ NdviMissing => ret.crop_ready = TRUE
        /\ ~NdviMissing =>
              /\ ret.crop_ready = (Val(args.geospatial_data.ndvi) > 60)
              /\ Val(args.geospatial_data.ndvi) \in {50, 60} => ret.crop_ready = FALSE
              /\ Val(args.geospatial_data.ndvi) = 75 => ret.crop_ready = TRUE

\* an NDVI of exactly 0.6 is not ready
ReadyIffNdviAboveThresholdWitness ==
    /\ pc = "return"
    /\ ~NdviMissing
    /\ args.geospatial_data.ndvi = Some(60)
    /\ ret.crop_ready = FALSE

-----
(* SupervisorAgent.generate_recommendation: one action per awaited branch,  *)
(* then synthesis, scoring and the reasoning chain in one step.  sources    *)
(* holds what the data sources do during the request.                       *)

PipeCrops == {"tomato", "onion", "potato"}

Languages == {"en", "hi"}

CacheRow(ndvi, created_at) ==
    [ndvi |-> ndvi, soil_moisture |-> Some(40), rainfall_mm |-> Some(12),
     created_at |-> created_at]

\* satellite_cache at time now: failing, empty, a fresh row, a row older than
\* OldCacheDays, an expired row, a row with a NULL ndvi
CacheStates(now) ==
    {[status |-> "error"], [status |-> "up", rows |-> << >>],
     [status |-> "up", rows |-> <<CacheRow(Some(75), now - 5)>>],
     [status |-> "up", rows |-> <<CacheRow(Some(50), now - 24 * (OldCacheDays + 1))>>],
     [status |-> "up", rows |-> <<CacheRow(Some(75), now - 24 * CacheTtlDays)>>],
     [status |-> "up", rows |-> <<CacheRow(None, now - 5)>>]}

\* the weather provider on a winter and on a monsoon day: no API key, key and
\* a failing request, key and an answer (empty, stormy, malformed)
ProviderStates ==
    LET today == {[month |-> 1, day |-> 10], [month |-> 7, day |-> 15]}
    IN  UNION {
          {[now |-> d, has_api_key |-> FALSE, api |-> [kind |-> "timeout"]],
           [now |-> d, has_api_key |-> TRUE, api |-> [kind |-> "http_error"]],
           [now |-> d, has_api_key |-> TRUE,
            api |-> [kind |-> "ok", daily |-> ApiDaily(d, "calm", "calm", 0)]],
           [now |-> d, has_api_key |-> TRUE,
            api |-> [kind |-> "ok", daily |-> ApiDaily(d, "storm", "calm", ForecastLength)]],
           [now |-> d, has_api_key |-> TRUE,
            api |-> [kind |-> "ok", daily |-> ApiDaily(d, "malformed", "calm", 2)]]}
          : d \in today}

\* the rule store, and whether an exception escapes the agronomist agent
RulesStates ==
    {[store |-> st, fault |-> FALSE] : st \in StoreStates}
    \cup {[store |-> [status |-> "up", rules |-> RuleBase], fault |-> TRUE]}

\* the primary price source, and whether an exception escapes the economist
\* agent
MarketStates ==
    {[primary_ok |-> TRUE, fault |-> FALSE], [primary_ok |-> FALSE, fault |-> FALSE],
     [primary_ok |-> TRUE, fault |-> TRUE]}

Init ==
    /\ pc = "geospatial"
    /\ args = None
    /\ ret = None
    /\ request \in [crop : PipeCrops, language : Languages, location : FarmerLocations]
    /\ sources \in [clock : {24 * 30}, cache : CacheStates(24 * 30),
                    provider : ProviderStates, rules : RulesStates,
                    market : MarketStates]
    /\ geospatial_data = None
    /\ weather_data = None
    /\ agronomist_data = None
    /\ economist_data = None
    /\ recommendation = None
    /\ raised = FALSE
    /\ CacheIdle

\* line 46
GetGeospatialData ==
    /\ pc = "geospatial"
    /\ LET outcome == _get_geospatial_data(get_geospatial_data(sources.cache, sources.clock))
       IN  IF outcome.ok
           THEN geospatial_data' = outcome.value /\ pc' = "weather" /\ raised' = raised
           ELSE geospatial_data' = geospatial_data /\ pc' = "done" /\ raised' = TRUE
    /\ UNCHANGED <<args, ret, cacheVars, request, sources, weather_data, agronomist_data,
                   economist_data, recommendation>>

\* line 47
GetWeatherData ==
    /\ pc = "weather"
    /\ LET provider == sources.provider
           outcome == _get_weather_data(Ok(get_weather_forecast(provider.has_api_key,
                                               provider.api, provider.now, FALSE)))
       IN  IF outcome.ok
           THEN weather_data' = outcome.value /\ pc' = "agronomist" /\ raised' = raised
           ELSE weather_data' = weather_data /\ pc' = "done" /\ raised' = TRUE
    /\ UNCHANGED <<args, ret, cacheVars, request, sources, geospatial_data, agronomist_data,
                   economist_data, recommendation>>

\* line 48
GetAgronomistData ==
    /\ pc = "agronomist"
    /\ LET outcome == _get_agronomist_data(sources.rules.store, sources.rules.fault,
                          request.crop, Get(weather_data, "current_conditions", << >>))
       IN  IF outcome.ok
           THEN agronomist_data' = outcome.value /\ pc' = "economist" /\ raised' = raised
           ELSE agronomist_data' = agronomist_data /\ pc' = "done" /\ raised' = TRUE
    /\ UNCHANGED <<args, ret, cacheVars, request, sources, geospatial_data, weather_data,
                   economist_data, recommendation>>

\* line 49
GetEconomistData ==
    /\ pc = "economist"
    /\ LET outcome == _get_economist_data(sources.market.primary_ok, sources.market.fault,
                                          request.crop, request.location)
       IN  IF outcome.ok
           THEN economist_data' = outcome.value /\ pc' = "synthesize" /\ raised' = raised
           ELSE economist_data' = economist_data /\ pc' = "done" /\ raised' = TRUE
    /\ UNCHANGED <<args, ret, cacheVars, request, sources, geospatial_data, weather_data,
                   agronomist_data, recommendation>>

\* lines 52-74 (timestamp left out)
SynthesizeRecommendation ==
    /\ pc = "synthesize"
    /\ LET synthesis == _synthesize_recommendation(geospatial_data, weather_data,
                            agronomist_data, economist_data, request.crop,
                            request.language)
           scored == _calculate_confidence_and_quality(geospatial_data, weather_data,
                                                       agronomist_data, economist_data)
           rated == With(With(synthesis.value, "confidence", scored.confidence),
                         "data_quality", scored.data_quality)
       IN  IF synthesis.ok
           THEN /\ recommendation' =
                       With(rated, "reasoning_chain",
                            _generate_reasoning_chain(rated, geospatial_data, weather_data,
                                agronomist_data, economist_data, request.language))
                /\ raised' = raised
           ELSE recommendation' = recommendation /\ raised' = TRUE
    /\ pc' = "done"
    /\ UNCHANGED <<args, ret, cacheVars, request, sources, geospatial_data, weather_data,
                   agronomist_data, economist_data>>

Next ==
    \/ GetGeospatialData
    \/ GetWeatherData
    \/ GetAgronomistData
    \/ GetEconomistData
    \/ SynthesizeRecommendation

Spec == Init /\ [][Next]_vars

\* the keys every recommendation carries
AnswerKeys ==
    {"action", "urgency", "primary_message", "confidence", "data_quality",
     "reasoning_chain"}

\* C3: generate_recommendation never raises, and the recommendation it
\* returns contains action, urgency, primary_message, confidence,
\* data_quality and reasoning_chain, whatever each of the four branches does
\* (value, error-marked or fallback payload, exception) and in both languages.
NeverRaisesAlwaysAnswers ==
    /\ ~raised
    /\ pc = "done" =>
          /\ AnswerKeys \subseteq DOMAIN recommendation
          /\ recommendation.action \in {"harvest_now", "sell_now", "wait"}
          /\ recommendation.confidence \in 0..100
          /\ Len(recommendation.reasoning_chain) > 0

\* a Hindi request answered although the cache row is unreadable, the
\* forecast cannot be read and both agents fail
NeverRaisesAlwaysAnswersWitness ==
    /\ pc = "done"
    /\ request.language = "hi"
    /\ "error" \in DOMAIN geospatial_data
    /\ "error" \in DOMAIN weather_data
    /\ "error" \in DOMAIN agronomist_data
    /\ "error" \in DOMAIN economist_data
    /\ AnswerKeys \subseteq DOMAIN recommendation

\* the payload says that its branch is degraded
Flagged(payload) ==
    "error" \in DOMAIN payload \/ Get(payload, "fallback_used", FALSE) = TRUE

RuleStoreUnreachable == sources.rules.store.status # "up"

PrimaryMarketUnreachable == ~sources.market.primary_ok

WeatherProviderUnreachable ==
    sources.provider.has_api_key /\ sources.provider.api.kind # "ok"

\* C6: when the rule store, the primary market price source or the weather
\* provider is unreachable, the branch degrades to its built-in fallback and
\* the payload handed to the synthesizer carries an error marker or
\* fallback_used = true; synthesis is never aborted.
UnreachableSourceIsFlagged ==
    pc = "done" =>
        /\ ~raised
        /\ AnswerKeys \subseteq DOMAIN recommendation
        /\ RuleStoreUnreachable =>
              /\ agronomist_data.matched_rules = _get_default_rules(request.crop)
              /\ Flagged(agronomist_data)
        /\ PrimaryMarketUnreachable =>
              /\ economist_data.data_source = "AIKosh"
              /\ Flagged(economist_data)
        /\ WeatherProviderUnreachable => Flagged(weather_data)

\* what the lines of the returned reasoning chain are about, in order
ChainTopics ==
    [k \in 1..Len(recommendation.reasoning_chain) |-> recommendation.reasoning_chain[k].topic]

\* C20: for both locales (en, hi) and every combination of branch payloads
\* (unknown spoilage risk and missing market data included), the
\* reasoning_chain consists of five lines in this order: weather status,
\* crop-health status, spoilage-risk status, market-price status, final
\* recommendation line.
ReasoningChainHasFiveLines ==
    (pc = "done" /\ ~raised) =>
        ChainTopics = <<"weather", "crop_health", "spoilage", "market", "recommendation">>

-----------------------------------------------------------------------------
(* Specification of two requests that differ in what one data source does:  *)
(* the same crop and location, the data sources of args.given for the       *)
(* first, and for the second the same with the source args.changed behaving *)
(* as args.other.                                                           *)

\* lines 46-49 of generate_recommendation: the payload of each branch, under
\* the name of its data source
BranchPayloads(crop, location, given) ==
    LET geospatial == _get_geospatial_data(get_geospatial_data(given.cache, given.clock))
        weather == _get_weather_data(Ok(get_weather_forecast(given.provider.has_api_key,
                                            given.provider.api, given.provider.now, FALSE)))
        agronomist == _get_agronomist_data(given.rules.store, given.rules.fault, crop,
                                           Get(weather.value, "current_conditions", << >>))
        economist == _get_economist_data(given.market.primary_ok, given.market.fault,
                                         crop, location)
    IN  [cache |-> geospatial.value, provider |-> weather.value,
         rules |-> agronomist.value, market |-> economist.value]

SourceNames == {"cache", "provider", "rules", "market"}

SourceStates(name) ==
    CASE name = "cache" -> CacheStates(24 * 30)
      [] name = "provider" -> ProviderStates
      [] name = "rules" -> RulesStates
      [] name = "market" -> MarketStates

InitBranches ==
    /\ pc = "call"
    /\ \E crop \in PipeCrops, location \in FarmerLocations, changed \in SourceNames :
       \E cache \in SourceStates("cache"), provider \in SourceStates("provider"), rules \in SourceStates("rules"), market \in SourceStates("market"), other \in SourceStates(changed) :
           args = [crop |-> crop, location |-> location,
                   given |-> [clock |-> 24 * 30, cache |-> cache, provider |-> provider,
                              rules |-> rules, market |-> market],
                   changed |-> changed, other |-> other]
    /\ ret = None
    /\ PipeIdle
    /\ CacheIdle

\* both requests run their four branches
RunBranchesTwice ==
    /\ pc = "call"
    /\ ret' = [first |-> BranchPayloads(args.crop, args.location, args.given),
               second |-> BranchPayloads(args.crop, args.location,
                              [args.given EXCEPT ![args.changed] = args.other])]
    /\ pc' = "return"
    /\ UNCHANGED <<args, pipeVars, cacheVars>>

NextBranches == RunBranchesTwice

SpecBranches == InitBranches /\ [][NextBranches]_vars

AllBranchesSettled ==
    /\ geospatial_data # None
    /\ weather_data # None
    /\ agronomist_data # None
    /\ economist_data # None

\* C24: in generate_recommendation, synthesis and confidence scoring start
\* only after all four branches (geospatial, weather, rules, market) have
\* settled to a value or an error-marked payload, and an exception raised
\* inside any one branch does not prevent any of the other branches from
\* being run.
SynthesisAfterAllBranchesSettle ==
    /\ pc \in {"synthesize", "done"} => AllBranchesSettled
    /\ recommendation # None => (pc = "done" /\ AllBranchesSettled)
    /\ pc = "weather" => geospatial_data # None
    /\ pc = "agronomist" => (geospatial_data # None /\ weather_data # None)
    /\ pc = "economist" => agronomist_data # None

\* the cache row cannot be read and an exception escapes the agronomist
\* agent, and still the weather and market branches ran and a recommendation
\* was synthesized from the four payloads
SynthesisAfterAllBranchesSettleWitness ==
    /\ pc = "done"
    /\ "error" \in DOMAIN geospatial_data
    /\ "error" \in DOMAIN agronomist_data
    /\ "risk_assessment" \in DOMAIN weather_data
    /\ Truthy(economist_data.best_market)
    /\ recommendation # None

\* what the weather service returned for the request
ServiceForecast ==
    get_weather_forecast(sources.provider.has_api_key, sources.provider.api,
                         sources.provider.now, FALSE)

\* C29: when the weather service returns a non-empty forecast in its own
\* output format together with a risk assessment, the weather branch keeps
\* that risk assessment and adds no error marker: the storm_risk indicator of
\* the recommendation equals the has_storm_risk computed by the weather
\* service, so a storm detected by the weather service always leads to action
\* harvest_now with primary_factor storm_risk.
ServiceRiskAssessmentReachesRecommendation ==
    (pc = "done" /\ Len(ServiceForecast.forecast) > 0) =>
        /\ "error" \notin DOMAIN weather_data
        /\ weather_data.risk_assessment = ServiceForecast.risk_assessment
        /\ recommendation.indicators.storm_risk
               = ServiceForecast.risk_assessment.has_storm_risk
        /\ ServiceForecast.risk_assessment.has_storm_risk =>
               /\ recommendation.action = "harvest_now"
               /\ recommendation.primary_factor = "storm_risk"

====
